---- MODULE Spec2Model ----
(***************************************************************************)
(* The grocery manager of 3_crew/engineering_team_shopping_list/output:    *)
(* GroceryManager (grocery_app.py) and the UI-level functions of app.py    *)
(* that act on the one shared manager instance.                            *)
(*                                                                         *)
(* Modelled: the per-store catalog, the shopping list (cart), the archive  *)
(* ring, budgets and email setting, the debounced save (threading.Timer    *)
(* objects running _do_save) and force_save on the calling thread, and the *)
(* local JSON file the saves write.                                        *)
(*                                                                         *)
(* Prices are integer cents.  An archive entry's date and date_label are   *)
(* wall-clock strings that no modelled operation reads back; they are left *)
(* out, as is the default_quantity field the seed items carry.             *)
(***************************************************************************)
EXTENDS Integers, Sequences, FiniteSets, TLC

(***************************************************************************)
(* Bounds of the model.                                                    *)
(***************************************************************************)
\* Largest quantity a cart entry may reach (add_to_cart is not offered above).
MaxQty == 2
\* Longest cart (restore appends without merging, so the cart can grow).
MaxCart == 2
\* Longest ring in the cart-centred specification (the ring-centred one
\* fills the ring to max_archives).
MaxRing == 2
\* Timer callbacks (_do_save) that may be in progress at the same time.
MaxRunning == 2
\* Longest batch of indices given to delete_multiple_archives.
MaxBatch == 2
\* items added to the catalog of one store that are there at one time
MaxItems == 2
\* item names in the archives of SpecSummary
MaxNames == 11

(***************************************************************************)
(* Program constants.                                                      *)
(***************************************************************************)
\* self.max_archives
max_archives == 6
\* self._save_delay, in ticks of one second
_save_delay == 3
\* data.get('budget', 650.0) of both loaders
LoadBudget == 650

\* Python's None for a string argument and for a numeric argument.
NoneStr == "None"
NoneNum == 0 - 1
\* archive_entry['store'] of an archive taken with store_name=None
AllStores == "All Stores"

(***************************************************************************)
(* The catalog the model starts from: _initialize_sample_data cut down to  *)
(* two stores and three items (ids, names, categories, units, stores as in *)
(* the seed data; prices in cents).                                        *)
(***************************************************************************)
Item(id, name, category, price, unit, store) ==
    [id |-> id, name |-> name, category |-> category, price |-> price,
     unit |-> unit, store |-> store]

\* The stores dict keeps insertion order; lookups scan it in this order.
StoreOrder == <<"Safeway", "Indian Groceries">>
StoreNames == {StoreOrder[i] : i \in 1..Len(StoreOrder)}

_get_indian_groceries_items ==
    << Item("ig-1", "Garam Masala", "Spices", 499, "jar", "Indian Groceries") >>

_initialize_sample_data ==
    [s \in StoreNames |->
        IF s = "Safeway"
        THEN << Item("sw-1", "Chicken Breast", "Meat", 499, "lb", "Safeway"),
                Item("sw-2", "Ground Beef", "Meat", 599, "lb", "Safeway") >>
        ELSE _get_indian_groceries_items]

DefaultStoreBudgets == [s \in StoreNames |-> IF s = "Safeway" THEN 150 ELSE 100]
DefaultBudget == 750
DefaultEmail == "gandhali.aradhye@gmail.com"

VARIABLES
    stores,          \* self.stores: store name -> sequence of catalog items
    shopping_list,   \* self.shopping_list: sequence of cart entries
    budget,          \* self.budget
    store_budgets,   \* self.store_budgets
    email_address,   \* self.email_address
    archived_lists,  \* self.archived_lists: the archive ring, newest first
    _save_pending,   \* self._save_pending
    timers,          \* the live threading.Timer objects, oldest first
    mainpc,          \* where the calling thread is inside force_save, or
                     \* "cart" inside archive_and_restart
    catalog_file,    \* the document in the local file self.catalog_file
    hub_file,        \* the document of that name in the Hub dataset repository
    HF_HUB_AVAILABLE, \* whether huggingface_hub could be imported
    hf_token,        \* whether os.getenv("HF_TOKEN") gave a token
    ret,             \* what the last operation call returned
    addRun,          \* history: the current run of add-to-cart calls
    pre,             \* history: the cart around archive + restore(0)
    burst,           \* history: the current burst of _schedule_save calls
    owed             \* history: a _schedule_save call not yet followed by a write

dataVars == <<stores, shopping_list, budget, store_budgets, email_address,
              archived_lists>>
\* the two copies of the document, and what the process found at its start
files == <<catalog_file, hub_file, HF_HUB_AVAILABLE, hf_token>>
schedVars == <<_save_pending, timers, mainpc, files>>
histVars == <<addRun, pre, burst, owed, ret>>
\* every variable but ret
state == <<stores, shopping_list, budget, store_budgets, email_address,
           archived_lists, _save_pending, timers, mainpc, files,
           addRun, pre, burst, owed>>
vars == <<stores, shopping_list, budget, store_budgets, email_address,
          archived_lists, _save_pending, timers, mainpc, catalog_file,
          hub_file, HF_HUB_AVAILABLE, hf_token, addRun, pre, burst, owed, ret>>

(***************************************************************************)
(* Pure helpers.                                                           *)
(***************************************************************************)
Min(S) == CHOOSE x \in S : \A y \in S : x <= y

\* s without its element at (1-based) position i: list.pop(i-1)
RemoveAt(s, i) == SubSeq(s, 1, i - 1) \o SubSeq(s, i + 1, Len(s))

\* sorted(indices, reverse=True), by insertion
RECURSIVE InsertDesc(_, _)
InsertDesc(x, s) ==
    IF s = <<>> THEN <<x>>
    ELSE IF x >= Head(s) THEN <<x>> \o s
    ELSE <<Head(s)>> \o InsertDesc(x, Tail(s))

RECURSIVE SortedDesc(_)
SortedDesc(s) == IF s = <<>> THEN <<>> ELSE InsertDesc(Head(s), SortedDesc(Tail(s)))

\* every item of every store, in the order "for store_name, items in
\* self.stores.items(): for item in items" visits them
RECURSIVE CatalogFrom(_, _)
CatalogFrom(st, i) ==
    IF i > Len(StoreOrder) THEN <<>>
    ELSE (IF StoreOrder[i] \in DOMAIN st THEN st[StoreOrder[i]] ELSE <<>>)
            \o CatalogFrom(st, i + 1)

AllItems == CatalogFrom(stores, 1)

InCatalog(id) == \E i \in 1..Len(AllItems) : AllItems[i].id = id
\* the first catalog item with this id
CatalogItem(id) ==
    AllItems[Min({i \in 1..Len(AllItems) : AllItems[i].id = id})]

InCart(id) == \E i \in 1..Len(shopping_list) : shopping_list[i].id = id
FirstInCart(id) == Min({i \in 1..Len(shopping_list) : shopping_list[i].id = id})

\* item.copy() with 'quantity' set
CartEntry(item, q) ==
    [id |-> item.id, name |-> item.name, category |-> item.category,
     price |-> item.price, unit |-> item.unit, store |-> item.store,
     quantity |-> q]

\* [item for item in lst if item.get('store') == store_name]
OfStore(lst, s) == SelectSeq(lst, LAMBDA e : e.store = s)
\* [item for item in lst if item.get('store') != store_name]
NotOfStore(lst, s) == SelectSeq(lst, LAMBDA e : e.store # s)

\* A line total that leaves the quantity out.
LineTotal_price(e) == e.price

LineTotal(e) == e.price * e.quantity
\* sum(item['price'] * item['quantity'] for item in lst)
RECURSIVE TotalOf(_)
TotalOf(lst) ==
    IF lst = <<>> THEN 0 ELSE LineTotal(Head(lst)) + TotalOf(Tail(lst))

\* GroceryManager.get_total_cost: round(total, 2), which leaves a whole
\* number of cents as it is
get_total_cost == TotalOf(shopping_list)

\* f"${total:.2f}" of an amount in cents: the sign, the dollars and the two
\* digits after the point
Money(c) ==
    LET a == IF c < 0 THEN 0 - c ELSE c
    IN  [neg |-> c < 0, dollars |-> a \div 100, cents |-> a % 100]

\* app.get_store_total(store_name)
get_store_total(store_name) == Money(TotalOf(OfStore(shopping_list, store_name)))

\* the document _save_to_hub and _save_local serialize (last_updated left out)
Data ==
    [stores |-> stores, shopping_list |-> shopping_list, budget |-> budget,
     store_budgets |-> store_budgets, email_address |-> email_address,
     archived_lists |-> archived_lists]

\* What a file holds when it is not there, and when it is not JSON.
NoFile == [missing |-> TRUE]
BadFile == [unparsable |-> TRUE]

\* How the local writes of one flush end: json.dump wrote the document, open
\* raised and left the file as it was, or json.dump raised after open had
\* truncated the file.  One flush meets one of them in all its local writes.
LocalOutcomes == {"written", "unchanged", "truncated"}

\* A local write that writes nothing.
LocalAfter_stale(doc, local) == catalog_file

\* The local file after "with open(self.catalog_file, 'w') as f:
\* json.dump(data, f, indent=2)", every exception caught.
LocalAfter(doc, local) ==
    IF local = "written" THEN doc
    ELSE IF local = "truncated" THEN BadFile
    ELSE catalog_file

\* The Hub file after _save_to_hub: api.upload_file is reached only with
\* the library, a token and the local backup written, and may raise.
HubAfter(doc, lib, tok, upload, local) ==
    IF lib /\ tok /\ local = "written" /\ upload THEN doc ELSE hub_file

\* A flush that, when the local write fails, empties the cart.
_save_to_hub_rollback(upload, local) ==
    /\ catalog_file' = LocalAfter(Data, local)
    /\ hub_file' = HubAfter(Data, HF_HUB_AVAILABLE, hf_token, upload, local)
    /\ shopping_list' = IF local = "written" THEN shopping_list ELSE <<>>
    /\ UNCHANGED <<stores, budget, store_budgets, email_address, archived_lists,
                   HF_HUB_AVAILABLE, hf_token>>

\* GroceryManager._save_to_hub, with _save_local where it falls back to it:
\* the fields are read, not assigned, and every exception is caught, so the
\* caller goes on.
_save_to_hub(upload, local) ==
    /\ catalog_file' = LocalAfter(Data, local)
    /\ hub_file' = HubAfter(Data, HF_HUB_AVAILABLE, hf_token, upload, local)
    /\ UNCHANGED <<dataVars, HF_HUB_AVAILABLE, hf_token>>

(***************************************************************************)
(* The save scheduler.  A threading.Timer is a record: pc "wait" while its *)
(* thread sleeps (rem seconds left), then "save" and "clear" while it runs *)
(* _do_save; cur says that self._save_timer refers to it.  A timer that is *)
(* cancelled while it waits, or whose callback has returned, does nothing  *)
(* more and is dropped.  cancel() on a timer whose callback already runs   *)
(* has no effect (Timer.run tests the finished event only before the call).*)
(***************************************************************************)
NewTimer == [pc |-> "wait", rem |-> _save_delay, cur |-> TRUE]

Running(ts) == {i \in 1..Len(ts) : ts[i].pc # "wait"}

\* A cancel that stops no timer.
CancelTimer_none(ts) == ts

\* if self._save_timer: self._save_timer.cancel()
CancelTimer(ts) == SelectSeq(ts, LAMBDA t : ~(t.pc = "wait" /\ t.cur))

\* self._save_timer = threading.Timer(...); self._save_timer.start()
StartTimer(ts) ==
    Append([i \in 1..Len(ts) |-> [ts[i] EXCEPT !.cur = FALSE]], NewTimer)

\* The value of a history variable that a specification does not follow: the
\* operations leave it as it is.
BurstOff == [ok |-> FALSE, calls |-> 0, flushes |-> 0, since |-> 0, early |-> TRUE]
OwedOff == "off"
OwedAfter(v) == IF owed = OwedOff THEN owed ELSE v

\* No burst of _schedule_save calls is being followed.  In a burst, calls
\* counts the _schedule_save calls (up to three, then it stays), flushes the
\* writes of the document (up to two), since the seconds since the last call
\* (up to _save_delay), and early says that a write came before _save_delay
\* seconds had passed since the last call.
NoBurst == [ok |-> FALSE, calls |-> 0, flushes |-> 0, since |-> 0, early |-> FALSE]

\* The burst history after one more _schedule_save call: a call made with the
\* scheduler idle starts a burst; a call made while the timer armed by the
\* previous call has not expired continues it; anything else ends it.
BurstOnSchedule ==
    IF burst = BurstOff THEN burst
    ELSE IF timers = <<>> /\ ~_save_pending
    THEN [ok |-> TRUE, calls |-> 1, flushes |-> 0, since |-> 0, early |-> FALSE]
    ELSE IF /\ burst.ok
            /\ \E i \in 1..Len(timers) :
                 timers[i].pc = "wait" /\ timers[i].cur /\ timers[i].rem > 0
         THEN [burst EXCEPT !.calls = IF @ < 3 THEN @ + 1 ELSE @,
                            !.since = 0]
         ELSE NoBurst

\* The burst history after one write of the document.
BurstOnFlush ==
    IF burst.ok
    THEN [burst EXCEPT !.flushes = IF @ < 2 THEN @ + 1 ELSE @,
                       !.early = @ \/ burst.since < _save_delay]
    ELSE burst

\* GroceryManager._schedule_save, as part of the operation that calls it
_schedule_save ==
    /\ timers' = StartTimer(CancelTimer(timers))
    /\ _save_pending' = TRUE
    /\ burst' = BurstOnSchedule
    /\ owed' = OwedAfter("yes")
    /\ UNCHANGED <<mainpc, files>>

\* An operation that returns without touching the scheduler.
NoSave == UNCHANGED <<_save_pending, timers, mainpc, files, burst, owed>>

\* GroceryManager.force_save up to the call of _do_save: the caller goes on
\* in MainCheck, MainSave, MainClear.
force_save ==
    /\ timers' = CancelTimer(timers)
    /\ _save_pending' = TRUE
    /\ mainpc' = "check"
    /\ burst' = IF burst = BurstOff THEN burst ELSE NoBurst
    /\ UNCHANGED <<files, owed>>

\* _do_save on the calling thread: if self._save_pending
MainCheck ==
    /\ mainpc = "check"
    /\ mainpc' = IF _save_pending THEN "save" ELSE "idle"
    /\ UNCHANGED <<dataVars, _save_pending, timers, files, histVars>>

\* _do_save on the calling thread: self._save_to_hub()
MainSave(upload, local) ==
    /\ mainpc = "save"
    /\ _save_to_hub(upload, local)
    /\ mainpc' = "clear"
    /\ owed' = OwedAfter("no")
    /\ burst' = BurstOnFlush
    /\ UNCHANGED <<_save_pending, timers, addRun, pre, ret>>

\* _do_save on the calling thread: self._save_pending = False, and return
MainClear ==
    /\ mainpc = "clear"
    /\ _save_pending' = FALSE
    /\ mainpc' = "idle"
    /\ UNCHANGED <<dataVars, timers, files, histVars>>

\* One second passes for every sleeping timer.
Tick ==
    /\ \E i \in 1..Len(timers) : timers[i].pc = "wait" /\ timers[i].rem > 0
    /\ timers' = [i \in 1..Len(timers) |->
                    IF timers[i].pc = "wait" /\ timers[i].rem > 0
                    THEN [timers[i] EXCEPT !.rem = @ - 1]
                    ELSE timers[i]]
    /\ burst' = IF burst.ok /\ burst.since < _save_delay
                THEN [burst EXCEPT !.since = @ + 1]
                ELSE burst
    /\ UNCHANGED <<dataVars, _save_pending, mainpc, files, addRun, pre, owed, ret>>

\* Timer.run after the delay, and _do_save's test of self._save_pending
TimerFire(i) ==
    /\ i \in 1..Len(timers)
    /\ timers[i].pc = "wait"
    /\ timers[i].rem = 0
    /\ Cardinality(Running(timers)) < MaxRunning
    /\ timers' = IF _save_pending
                 THEN [timers EXCEPT ![i] = [pc |-> "save", rem |-> 0, cur |-> FALSE]]
                 ELSE RemoveAt(timers, i)
    /\ UNCHANGED <<dataVars, _save_pending, mainpc, files, histVars>>

\* _do_save on a timer thread: self._save_to_hub()
TimerSave(i, upload, local) ==
    /\ i \in 1..Len(timers)
    /\ timers[i].pc = "save"
    /\ _save_to_hub(upload, local)
    /\ timers' = [timers EXCEPT ![i].pc = "clear"]
    /\ owed' = OwedAfter("no")
    /\ burst' = BurstOnFlush
    /\ UNCHANGED <<_save_pending, mainpc, addRun, pre, ret>>

\* _do_save on a timer thread: self._save_pending = False, and return
TimerClear(i) ==
    /\ i \in 1..Len(timers)
    /\ timers[i].pc = "clear"
    /\ _save_pending' = FALSE
    /\ timers' = RemoveAt(timers, i)
    /\ UNCHANGED <<dataVars, mainpc, files, histVars>>

(***************************************************************************)
(* History of the operations, read only by the properties.                 *)
(***************************************************************************)
NoRun == [id |-> "", total |-> 0, calls |-> 0]
NoPre == [phase |-> "none", store |-> "", mine |-> <<>>, others |-> <<>>]
RunOff == [id |-> "off", total |-> 0, calls |-> 0]
PreOff == [phase |-> "off", store |-> "", mine |-> <<>>, others |-> <<>>]
RunAfter(v) == IF addRun = RunOff THEN addRun ELSE v
PreAfter(v) == IF pre = PreOff THEN pre ELSE v

\* The run of add-to-cart calls after one more successful call: a run starts
\* with a call for an id the cart does not hold and goes on while the calls
\* name the same id.
RunAfterAdd(id, q) ==
    IF addRun.id = id
    THEN [id |-> id, total |-> addRun.total + q, calls |-> addRun.calls + 1]
    ELSE IF ~InCart(id) THEN [id |-> id, total |-> q, calls |-> 1]
    ELSE NoRun

HistReset == addRun' = RunAfter(NoRun) /\ pre' = PreAfter(NoPre)

\* What a call returns: "True", "False" and "None" for these values, "True"
\* for a pair (True, message), the message of a pair (False, message), "ok"
\* for the success message of a function of app.py and its message otherwise.
\* RetOff is the value in a specification that does not follow the returns.
RetOff == "off"
NoRet == "none"
RetAfter(v) == IF ret = RetOff THEN ret ELSE v
Returns(v) == ret' = RetAfter(v)
\* A call that returns v and changes nothing.
Fails(v) == Returns(v) /\ UNCHANGED state

(***************************************************************************)
(* Cart operations: GroceryManager's, and app.py's own copies of them.     *)
(***************************************************************************)
\* A merge that replaces the quantity instead of adding to it.
MergeQuantity_overwrite(old, q) == q

\* list_item['quantity'] += quantity
MergeQuantity(old, q) == old + q

\* The cart after adding q of a catalog item: merged into the first entry with
\* the item's id, else appended as a copy.
AddEntry(lst, item, q) ==
    IF \E i \in 1..Len(lst) : lst[i].id = item.id
    THEN LET k == Min({i \in 1..Len(lst) : lst[i].id = item.id})
         IN  [lst EXCEPT ![k].quantity = MergeQuantity(@, q)]
    ELSE Append(lst, CartEntry(item, q))

\* GroceryManager.add_to_shopping_list(item_id, quantity)
add_to_shopping_list(item_id, quantity) ==
    /\ mainpc = "idle"
    /\ IF InCatalog(item_id)
       THEN /\ shopping_list' = AddEntry(shopping_list, CatalogItem(item_id), quantity)
            /\ addRun' = RunAfter(RunAfterAdd(item_id, quantity))
            /\ pre' = PreAfter(NoPre)
            /\ Returns("True")
            /\ _schedule_save
            /\ UNCHANGED <<stores, budget, store_budgets, email_address, archived_lists>>
       ELSE Fails("False")

\* app.add_to_cart(item_id, quantity): no save is scheduled
add_to_cart(item_id, quantity) ==
    /\ mainpc = "idle"
    /\ IF InCatalog(item_id)
       THEN /\ shopping_list' = AddEntry(shopping_list, CatalogItem(item_id), quantity)
            /\ addRun' = RunAfter(RunAfterAdd(item_id, quantity))
            /\ pre' = PreAfter(NoPre)
            /\ Returns("ok")
            /\ NoSave
            /\ UNCHANGED <<stores, budget, store_budgets, email_address, archived_lists>>
       ELSE Fails("Item not found")

\* GroceryManager.remove_from_shopping_list(item_id)
remove_from_shopping_list(item_id) ==
    /\ mainpc = "idle"
    /\ shopping_list' = SelectSeq(shopping_list, LAMBDA e : e.id # item_id)
    /\ HistReset
    /\ Returns("None")
    /\ _schedule_save
    /\ UNCHANGED <<stores, budget, store_budgets, email_address, archived_lists>>

\* app.remove_from_cart(item_id): pops the first match; no save is scheduled
remove_from_cart(item_id) ==
    /\ mainpc = "idle"
    /\ IF item_id # "" /\ InCart(item_id)
       THEN /\ shopping_list' = RemoveAt(shopping_list, FirstInCart(item_id))
            /\ HistReset
            /\ Returns("ok")
            /\ NoSave
            /\ UNCHANGED <<stores, budget, store_budgets, email_address, archived_lists>>
       ELSE Fails(IF item_id = "" THEN "Please select an item to remove"
                  ELSE "Item not found in your shopping list")

\* GroceryManager.update_quantity(item_id, quantity)
update_quantity(item_id, quantity) ==
    /\ mainpc = "idle"
    /\ IF InCart(item_id)
       THEN /\ shopping_list' =
                 [shopping_list EXCEPT ![FirstInCart(item_id)].quantity = quantity]
            /\ HistReset
            /\ Returns("True")
            /\ _schedule_save
            /\ UNCHANGED <<stores, budget, store_budgets, email_address, archived_lists>>
       ELSE Fails("False")

\* app.update_item_quantity(item_id, new_quantity): no save is scheduled
update_item_quantity(item_id, new_quantity) ==
    /\ mainpc = "idle"
    /\ IF item_id # "" /\ ~(new_quantity < 1) /\ InCart(item_id)
       THEN /\ shopping_list' =
                 [shopping_list EXCEPT ![FirstInCart(item_id)].quantity = new_quantity]
            /\ HistReset
            /\ Returns("ok")
            /\ NoSave
            /\ UNCHANGED <<stores, budget, store_budgets, email_address, archived_lists>>
       ELSE Fails(IF item_id = "" THEN "Please enter an item ID"
                  ELSE IF new_quantity < 1 THEN "Quantity must be at least 1"
                  ELSE "Item not found in cart")

\* GroceryManager.clear_shopping_list()
clear_shopping_list ==
    /\ mainpc = "idle"
    /\ shopping_list' = <<>>
    /\ HistReset
    /\ Returns("None")
    /\ _schedule_save
    /\ UNCHANGED <<stores, budget, store_budgets, email_address, archived_lists>>

\* app.clear_shopping_list(): no save is scheduled
app_clear_shopping_list ==
    /\ mainpc = "idle"
    /\ shopping_list' = <<>>
    /\ HistReset
    /\ Returns("ok")
    /\ NoSave
    /\ UNCHANGED <<stores, budget, store_budgets, email_address, archived_lists>>

(***************************************************************************)
(* Settings.                                                               *)
(***************************************************************************)
\* GroceryManager.set_budget(amount)
set_budget(amount) ==
    /\ mainpc = "idle"
    /\ budget' = amount
    /\ Returns("None")
    /\ _schedule_save
    /\ UNCHANGED <<stores, shopping_list, store_budgets, email_address,
                   archived_lists, addRun, pre>>

\* app.update_budget(new_budget): no save is scheduled
update_budget(new_budget) ==
    /\ mainpc = "idle"
    /\ budget' = new_budget
    /\ Returns("ok")
    /\ NoSave
    /\ UNCHANGED <<stores, shopping_list, store_budgets, email_address,
                   archived_lists, addRun, pre>>

\* app.save_budgets(..., sf_budget, ..., ig_budget, total_budget), for the
\* model's two stores: no save is scheduled
save_budgets(sf_budget, ig_budget, total_budget) ==
    /\ mainpc = "idle"
    /\ store_budgets' = [s \in StoreNames |->
                            IF s = "Safeway" THEN sf_budget ELSE ig_budget]
    /\ budget' = total_budget
    /\ Returns("ok")
    /\ NoSave
    /\ UNCHANGED <<stores, shopping_list, email_address, archived_lists, addRun, pre>>

\* What save_email tests of its argument, for the addresses the model enters:
\* '@' in email, and for every comma-separated part '@' in e and '.' in e.
EmailArgs == {"a@b.com", "a@b", "nobody"}
HasAt(email) == email \in {"a@b.com", "a@b"}
HasDot(email) == email \in {"a@b.com"}

\* app.save_email(email): no save is scheduled
save_email(email) ==
    /\ mainpc = "idle"
    /\ IF HasAt(email) /\ HasDot(email)
       THEN /\ email_address' = email
            /\ Returns("ok")
            /\ NoSave
            /\ UNCHANGED <<stores, shopping_list, budget, store_budgets,
                           archived_lists, addRun, pre>>
       ELSE Fails("Invalid email")

(***************************************************************************)
(* Catalog update.                                                         *)
(***************************************************************************)
\* The four "if x is not None: item['x'] = x" of update_catalog_item, on a
\* catalog item or on a cart entry.
Patch(rec, name, category, price, unit) ==
    [rec EXCEPT !.name = IF name # NoneStr THEN name ELSE @,
                !.category = IF category # NoneStr THEN category ELSE @,
                !.price = IF price # NoneNum THEN price ELSE @,
                !.unit = IF unit # NoneStr THEN unit ELSE @]

\* An update that leaves the cart as it is.
PatchCart_none(lst, item_id, name, category, price, unit) == lst

\* "for list_item in self.shopping_list: if list_item['id'] == item_id: ..."
PatchCart(lst, item_id, name, category, price, unit) ==
    [i \in 1..Len(lst) |->
        IF lst[i].id = item_id THEN Patch(lst[i], name, category, price, unit)
        ELSE lst[i]]

\* The store whose list holds the first catalog item with this id.
StoreOf(item_id) ==
    StoreOrder[Min({k \in 1..Len(StoreOrder) :
        /\ StoreOrder[k] \in DOMAIN stores
        /\ \E i \in 1..Len(stores[StoreOrder[k]]) :
              stores[StoreOrder[k]][i].id = item_id})]

\* GroceryManager.update_catalog_item(item_id, name, category, price, unit)
update_catalog_item(item_id, name, category, price, unit) ==
    /\ mainpc = "idle"
    /\ IF InCatalog(item_id)
       THEN LET s == StoreOf(item_id)
                k == Min({i \in 1..Len(stores[s]) : stores[s][i].id = item_id})
            IN  /\ stores' = [stores EXCEPT
                                ![s][k] = Patch(@, name, category, price, unit)]
                /\ shopping_list' =
                     PatchCart(shopping_list, item_id, name, category, price, unit)
                /\ HistReset
                /\ Returns("True")
                /\ _schedule_save
                /\ UNCHANGED <<budget, store_budgets, email_address, archived_lists>>
       ELSE Fails("False")

(***************************************************************************)
(* The catalog editor of app.py.                                           *)
(***************************************************************************)
\* A test that takes only None for a missing text.
Missing_noneOnly(text) == text = NoneStr

\* Python's "not text" for a text argument: None and '' are false.
Missing(text) == text = NoneStr \/ text = ""

\* str.strip() on the texts the model enters
Strip(text) ==
    CASE text = " MILK " -> "MILK"
      [] text = " " -> ""
      [] OTHER -> text

\* str.lower() on the names the model holds
Lower(text) ==
    CASE text \in {"Milk", "MILK"} -> "milk"
      [] text = "Ghee" -> "ghee"
      [] text = "Chicken Breast" -> "chicken breast"
      [] text = "Chicken Thighs" -> "chicken thighs"
      [] text = "Ground Beef" -> "ground beef"
      [] text = "Garam Masala" -> "garam masala"
      [] OTHER -> text

\* app.normalize_text on ASCII text: NFKD and the removal of combining marks
\* change nothing, the result is stripped
normalize_text(text) == IF Missing(text) THEN text ELSE Strip(text)

\* store_name[:2].lower().replace(" ", "")
IdPrefix(store_name) ==
    CASE store_name = "Safeway" -> "sa"
      [] store_name = "Indian Groceries" -> "in"

\* f"{prefix}-{n}"
MakeId(prefix, n) == prefix \o "-" \o ToString(n)

\* the numbers an id of the model can end in
IdNums == 1..(MaxItems + 1)

\* int(item_id.split("-")[1]) when item_id.startswith(prefix), 0 for an id
\* the loop of add_catalog_item skips
SuffixOf(item_id, prefix) ==
    IF \E n \in IdNums : item_id = MakeId(prefix, n)
    THEN CHOOSE n \in IdNums : item_id = MakeId(prefix, n)
    ELSE 0

Max(S) == CHOOSE x \in S : \A y \in S : y <= x

\* max_id after the loop over store_items
MaxSuffix(store_items, prefix) ==
    Max({0} \cup {SuffixOf(store_items[i].id, prefix) : i \in DOMAIN store_items})

\* A new id that counts the store's items.
NewId_count(store_items, prefix) == MakeId(prefix, Len(store_items) + 1)

\* new_id of add_catalog_item
NewId(store_items, prefix) == MakeId(prefix, MaxSuffix(store_items, prefix) + 1)

\* A duplicate test that compares the names as they are written.
NameTaken_exact(store_items, name) ==
    \E i \in DOMAIN store_items : store_items[i].name = name

\* the duplicate test of add_catalog_item
NameTaken(store_items, name) ==
    \E i \in DOMAIN store_items : Lower(store_items[i].name) = Lower(name)

\* app.add_catalog_item(store_name, name, category, price, unit), for a store
\* of the catalog
add_catalog_item(store_name, name, category, price, unit) ==
    /\ mainpc = "idle"
    /\ IF Missing(name) \/ Missing(category) \/ price <= 0
       THEN Fails("Please fill in all fields with valid values")
       ELSE LET name_normalized == normalize_text(Strip(name))
                category_normalized == normalize_text(Strip(category))
                store_items == stores[store_name]
            IN  IF NameTaken(store_items, name_normalized)
                THEN Fails("already exists")
                ELSE /\ stores' = [stores EXCEPT ![store_name] =
                            Append(@, Item(NewId(store_items, IdPrefix(store_name)),
                                           name_normalized, category_normalized,
                                           price, Strip(unit), store_name))]
                     /\ HistReset
                     /\ Returns("ok")
                     /\ _schedule_save
                     /\ UNCHANGED <<shopping_list, budget, store_budgets,
                                    email_address, archived_lists>>

\* app.delete_catalog_item(store_name, item_id)
delete_catalog_item(store_name, item_id) ==
    /\ mainpc = "idle"
    /\ IF Missing(item_id) \/ Strip(item_id) = ""
       THEN Fails("Please select an item to delete")
       ELSE LET store_items == stores[store_name]
                found == {i \in DOMAIN store_items : store_items[i].id = Strip(item_id)}
            IN  IF found # {}
                THEN /\ stores' = [stores EXCEPT ![store_name] = RemoveAt(@, Min(found))]
                     /\ HistReset
                     /\ Returns("ok")
                     /\ _schedule_save
                     /\ UNCHANGED <<shopping_list, budget, store_budgets,
                                    email_address, archived_lists>>
                ELSE Fails("Item not found in catalog")

\* app.update_catalog_item_handler(item_id, name, price, category), with the
\* GroceryManager.update_catalog_item it calls (the unit is kept)
update_catalog_item_handler(item_id, name, price, category) ==
    /\ mainpc = "idle"
    /\ IF Missing(item_id) \/ Strip(item_id) = ""
       THEN Fails("Please select an item from the catalog first to update")
       ELSE IF Missing(name) \/ Missing(category) \/ price <= 0
       THEN Fails("Please fill in all fields with valid values")
       ELSE IF InCatalog(item_id)
       THEN LET s == StoreOf(item_id)
                k == Min({i \in 1..Len(stores[s]) : stores[s][i].id = item_id})
                name_normalized == normalize_text(Strip(name))
                category_normalized == normalize_text(Strip(category))
            IN  /\ stores' = [stores EXCEPT ![s][k] =
                        Patch(@, name_normalized, category_normalized, price, NoneStr)]
                /\ shopping_list' = PatchCart(shopping_list, item_id, name_normalized,
                                              category_normalized, price, NoneStr)
                /\ HistReset
                /\ Returns("ok")
                /\ _schedule_save
                /\ UNCHANGED <<budget, store_budgets, email_address, archived_lists>>
       ELSE Fails("Item not found")

(***************************************************************************)
(* The archive ring.                                                       *)
(***************************************************************************)
\* data.get(key, default)
DocGet(doc, key, default) == IF key \in DOMAIN doc THEN doc[key] ELSE default

\* Python's truth value of a store_name argument: None and '' are false.
Truthy(store_name) == store_name # NoneStr /\ store_name # ""

\* A selection that takes the whole cart for any store.
Selected_wholeCart(lst, store_name) == lst

\* The entries archive_and_restart(store_name) selects from the cart.
Selected(lst, store_name) ==
    IF Truthy(store_name) THEN OfStore(lst, store_name) ELSE lst

\* archive_entry (date and date_label left out)
ArchiveEntry(store_name, store_items) ==
    [store |-> IF Truthy(store_name) THEN store_name ELSE AllStores,
     items |-> store_items,
     item_count |-> Len(store_items),
     total_cost |-> TotalOf(store_items)]

\* An insert without the cut.
InsertArchive_noCut(ring, entry) == <<entry>> \o ring

\* self.archived_lists.insert(0, archive_entry), then the cut to max_archives
InsertArchive(ring, entry) ==
    LET r == <<entry>> \o ring
    IN  IF Len(r) > max_archives THEN SubSeq(r, 1, max_archives) ELSE r

\* An archive that empties the cart whatever the store.
CartAfterArchive_clearAll(lst, store_name) == <<>>

\* The cart archive_and_restart(store_name) leaves.
CartAfterArchive(lst, store_name) ==
    IF Truthy(store_name) THEN NotOfStore(lst, store_name) ELSE <<>>

\* GroceryManager.archive_and_restart(store_name), up to the _do_save call of
\* its force_save
archive_and_restart(store_name) ==
    /\ mainpc = "idle"
    /\ LET store_items == Selected(shopping_list, store_name)
       IN  IF store_items # <<>>
           THEN /\ archived_lists' =
                     InsertArchive(archived_lists, ArchiveEntry(store_name, store_items))
                /\ shopping_list' = CartAfterArchive(shopping_list, store_name)
                /\ addRun' = RunAfter(NoRun)
                /\ pre' = PreAfter(IF Truthy(store_name)
                                   THEN [phase |-> "archived", store |-> store_name,
                                         mine |-> store_items,
                                         others |-> NotOfStore(shopping_list, store_name)]
                                   ELSE NoPre)
                /\ Returns("True")
                /\ force_save
                /\ UNCHANGED <<stores, budget, store_budgets, email_address>>
           ELSE Fails("No items to archive")

\* archive_and_restart statement by statement, for the specification in which
\* the timer threads run between the statements of the calling thread: the
\* statements up to the insert into the ring (and the cut)
archive_insert(store_name) ==
    /\ mainpc = "idle"
    /\ LET store_items == Selected(shopping_list, store_name)
       IN  IF store_items # <<>>
           THEN /\ archived_lists' =
                     InsertArchive(archived_lists, ArchiveEntry(store_name, store_items))
                /\ mainpc' = "cart"
                /\ UNCHANGED <<stores, shopping_list, budget, store_budgets,
                               email_address, _save_pending, timers, files, histVars>>
           ELSE Fails("No items to archive")

\* store_name of the archive_and_restart call that is at "cart": None for the
\* archive of all stores
ArchivingStore ==
    IF Head(archived_lists).store = AllStores THEN NoneStr ELSE Head(archived_lists).store

\* the assignment of the filtered cart to self.shopping_list, and force_save
\* up to the call of _do_save
archive_remove ==
    /\ mainpc = "cart"
    /\ shopping_list' = CartAfterArchive(shopping_list, ArchivingStore)
    /\ HistReset
    /\ Returns("True")
    /\ force_save
    /\ UNCHANGED <<stores, budget, store_budgets, email_address, archived_lists>>

\* A restore that replaces the whole cart by the archive's items.
CartAfterRestore_replaceAll(lst, archive) == archive.items

\* The cart restore_from_archive leaves for a valid index: the entries of the
\* archive's store removed, the archive's items appended.
CartAfterRestore(lst, archive) ==
    (IF Truthy(archive.store) THEN NotOfStore(lst, archive.store) ELSE <<>>)
        \o archive.items

\* A restore that takes the archive out of the ring.
restore_from_archive_pop(archive_index) ==
    /\ mainpc = "idle"
    /\ IF archive_index < 0 \/ archive_index >= Len(archived_lists)
       THEN Fails("Invalid archive index")
       ELSE /\ shopping_list' =
                 CartAfterRestore(shopping_list, archived_lists[archive_index + 1])
            /\ archived_lists' = RemoveAt(archived_lists, archive_index + 1)
            /\ HistReset
            /\ Returns("True")
            /\ _schedule_save
            /\ UNCHANGED <<stores, budget, store_budgets, email_address>>

\* GroceryManager.restore_from_archive(archive_index), index 0-based
restore_from_archive(archive_index) ==
    /\ mainpc = "idle"
    /\ IF archive_index < 0 \/ archive_index >= Len(archived_lists)
       THEN Fails("Invalid archive index")
       ELSE /\ shopping_list' =
                 CartAfterRestore(shopping_list, archived_lists[archive_index + 1])
            /\ addRun' = RunAfter(NoRun)
            /\ pre' = PreAfter(IF pre.phase = "archived" /\ archive_index = 0
                               THEN [pre EXCEPT !.phase = "restored"]
                               ELSE NoPre)
            /\ Returns("True")
            /\ _schedule_save
            /\ UNCHANGED <<stores, budget, store_budgets, email_address, archived_lists>>

\* GroceryManager.delete_archive(archive_index), up to the _do_save call
delete_archive(archive_index) ==
    /\ mainpc = "idle"
    /\ IF archive_index < 0 \/ archive_index >= Len(archived_lists)
       THEN Fails("Invalid archive index")
       ELSE /\ archived_lists' = RemoveAt(archived_lists, archive_index + 1)
            /\ HistReset
            /\ Returns("True")
            /\ force_save
            /\ UNCHANGED <<stores, shopping_list, budget, store_budgets, email_address>>

\* "for index in sorted_indices: if 0 <= index < len(self.archived_lists):
\*      self.archived_lists.pop(index)"
RECURSIVE PopEach(_, _)
PopEach(ring, sorted_indices) ==
    IF sorted_indices = <<>> THEN ring
    ELSE LET index == Head(sorted_indices)
         IN  IF 0 <= index /\ index < Len(ring)
             THEN PopEach(RemoveAt(ring, index + 1), Tail(sorted_indices))
             ELSE PopEach(ring, Tail(sorted_indices))

\* GroceryManager.delete_multiple_archives(indices), up to the _do_save call;
\* deleted_count is the number of entries popped
delete_multiple_archives(indices) ==
    /\ mainpc = "idle"
    /\ LET after == PopEach(archived_lists, SortedDesc(indices))
       IN  IF indices # <<>> /\ Len(after) < Len(archived_lists)
           THEN /\ archived_lists' = after
                /\ HistReset
                /\ Returns("True")
                /\ force_save
                /\ UNCHANGED <<stores, shopping_list, budget, store_budgets,
                               email_address>>
           ELSE Fails("No valid archives found")

(***************************************************************************)
(* The analytics over the ring.                                            *)
(***************************************************************************)
\* get_archive_summary of an empty ring: None
NoSummary == [none |-> TRUE]

\* sum(a[field] for a in ring)
RECURSIVE SumField(_, _)
SumField(ring, field) ==
    IF ring = <<>> THEN 0 ELSE Head(ring)[field] + SumField(Tail(ring), field)

\* round(total_spent / len(ring), 2) in whole cents (a half goes up)
RoundDiv(a, n) == (2 * a + n) \div (2 * n)

\* "all_store_totals[store] = all_store_totals.get(store, 0) + amount" for
\* the pairs of one archive's 'store_totals'
MergeTotals(acc, totals) ==
    [s \in DOMAIN acc \cup DOMAIN totals |-> DocGet(acc, s, 0) + DocGet(totals, s, 0)]

\* all_store_totals after the loop over the ring
RECURSIVE StoreTotals(_, _)
StoreTotals(acc, ring) ==
    IF ring = <<>> THEN acc
    ELSE StoreTotals(MergeTotals(acc, DocGet(Head(ring), "store_totals", <<>>)),
                     Tail(ring))

\* "item_counts[name] = item_counts.get(name, 0) + item['quantity']": the
\* dict as the sequence of its pairs in insertion order
CountItem(counts, item) ==
    IF \E i \in DOMAIN counts : counts[i].name = item.name
    THEN LET k == CHOOSE i \in DOMAIN counts : counts[i].name = item.name
         IN  [counts EXCEPT ![k].quantity = @ + item.quantity]
    ELSE Append(counts, [name |-> item.name, quantity |-> item.quantity])

RECURSIVE CountItems(_, _)
CountItems(counts, items) ==
    IF items = <<>> THEN counts
    ELSE CountItems(CountItem(counts, Head(items)), Tail(items))

\* item_counts after the loop over the ring
RECURSIVE ItemCounts(_, _)
ItemCounts(counts, ring) ==
    IF ring = <<>> THEN counts
    ELSE ItemCounts(CountItems(counts, DocGet(Head(ring), "items", <<>>)), Tail(ring))

\* An insert that puts a pair before the pairs of its quantity.
RECURSIVE InsertByQuantity_before(_, _)
InsertByQuantity_before(x, s) ==
    IF s = <<>> THEN <<x>>
    ELSE IF Head(s).quantity > x.quantity
         THEN <<Head(s)>> \o InsertByQuantity_before(x, Tail(s))
         ELSE <<x>> \o s

\* sorted(..., key=lambda x: x[1], reverse=True) is stable: a pair goes
\* behind the pairs of at least its quantity that come before it
RECURSIVE InsertByQuantity(_, _)
InsertByQuantity(x, s) ==
    IF s = <<>> THEN <<x>>
    ELSE IF Head(s).quantity >= x.quantity
         THEN <<Head(s)>> \o InsertByQuantity(x, Tail(s))
         ELSE <<x>> \o s

RECURSIVE SortedByQuantity(_, _)
SortedByQuantity(done, rest) ==
    IF rest = <<>> THEN done
    ELSE SortedByQuantity(InsertByQuantity(Head(rest), done), Tail(rest))

\* the 10 of "[:10]"
TopCount == 10

\* top_items
TopItems(counts) ==
    LET sorted == SortedByQuantity(<<>>, counts)
    IN  SubSeq(sorted, 1, IF Len(sorted) < TopCount THEN Len(sorted) ELSE TopCount)

\* GroceryManager.get_archive_summary()
get_archive_summary(ring) ==
    IF ring = <<>> THEN NoSummary
    ELSE [total_archives |-> Len(ring),
          total_spent |-> SumField(ring, "total_cost"),
          total_items |-> SumField(ring, "item_count"),
          avg_per_trip |-> RoundDiv(SumField(ring, "total_cost"), Len(ring)),
          store_totals |-> StoreTotals(<<>>, ring),
          top_items |-> TopItems(ItemCounts(<<>>, ring))]

(***************************************************************************)
(* Start of the process.                                                   *)
(***************************************************************************)
\* A test that takes an empty store for a store that is there.
IndianMissing_absentOnly(st) == "Indian Groceries" \notin DOMAIN st

\* Whether _ensure_indian_groceries_store finds the store missing or empty.
IndianMissing(st) ==
    "Indian Groceries" \notin DOMAIN st \/ st["Indian Groceries"] = <<>>

\* The fields as __init__ sets them before _load_data.
Fresh ==
    [stores |-> <<>>, shopping_list |-> <<>>, budget |-> DefaultBudget,
     store_budgets |-> DefaultStoreBudgets, email_address |-> DefaultEmail,
     archived_lists |-> <<>>]

\* The six "self.x = data.get('x', ...)" of both loaders.
FromDoc(doc) ==
    [stores |-> DocGet(doc, "stores", <<>>),
     shopping_list |-> DocGet(doc, "shopping_list", <<>>),
     budget |-> DocGet(doc, "budget", LoadBudget),
     store_budgets |-> DocGet(doc, "store_budgets", DefaultStoreBudgets),
     email_address |-> DocGet(doc, "email_address", DefaultEmail),
     archived_lists |-> DocGet(doc, "archived_lists", <<>>)]

\* Whether _load_data calls _load_from_hub and it returns True: the download
\* (hub_ok) and json.load raise nothing.
HubLoads(lib, tok, hub_ok) ==
    lib /\ tok /\ hub_ok /\ hub_file # NoFile /\ hub_file # BadFile

\* GroceryManager._load_or_initialize_local: the fields it leaves
_load_or_initialize_local ==
    IF catalog_file # NoFile /\ catalog_file # BadFile
    THEN IF "stores" \in DOMAIN catalog_file
         THEN FromDoc(catalog_file)
         ELSE [Fresh EXCEPT !.stores = catalog_file]
    ELSE [Fresh EXCEPT !.stores = _initialize_sample_data]

\* A load that reads the local file first.
_load_data_localFirst(lib, tok, hub_ok) ==
    IF catalog_file # NoFile /\ catalog_file # BadFile THEN _load_or_initialize_local
    ELSE IF HubLoads(lib, tok, hub_ok) THEN FromDoc(hub_file)
    ELSE _load_or_initialize_local

\* GroceryManager._load_data before _ensure_indian_groceries_store
_load_data(lib, tok, hub_ok) ==
    IF HubLoads(lib, tok, hub_ok) THEN FromDoc(hub_file)
    ELSE _load_or_initialize_local

\* GroceryManager._ensure_indian_groceries_store: the fields it leaves
_ensure_indian_groceries_store(d) ==
    IF IndianMissing(d.stores)
    THEN [d EXCEPT
            !.stores = ("Indian Groceries" :> _get_indian_groceries_items) @@ d.stores,
            !.store_budgets =
                IF "Indian Groceries" \in DOMAIN d.store_budgets
                THEN d.store_budgets
                ELSE d.store_budgets @@ ("Indian Groceries" :> 100)]
    ELSE d

\* The process ends (its daemon timers with it) and a new one is constructed
\* where the library is there or not (lib), a token is set or not (tok) and
\* the download works or not (hub_ok): __init__, _load_data,
\* _ensure_indian_groceries_store.  With no Hub load and no local file,
\* _load_or_initialize_local saves the sample data at once (upload, local).
Start(lib, tok, hub_ok, upload, local) ==
    LET loaded == _load_data(lib, tok, hub_ok)
        created == ~HubLoads(lib, tok, hub_ok) /\ catalog_file = NoFile
        d == _ensure_indian_groceries_store(loaded)
    IN  /\ stores' = d.stores
        /\ shopping_list' = d.shopping_list
        /\ budget' = d.budget
        /\ store_budgets' = d.store_budgets
        /\ email_address' = d.email_address
        /\ archived_lists' = d.archived_lists
        /\ HF_HUB_AVAILABLE' = lib
        /\ hf_token' = tok
        /\ catalog_file' = IF created THEN LocalAfter(loaded, local) ELSE catalog_file
        /\ hub_file' = IF created THEN HubAfter(loaded, lib, tok, upload, local)
                       ELSE hub_file
        /\ mainpc' = "idle"
        /\ IF IndianMissing(loaded.stores)
           THEN /\ timers' = <<NewTimer>>
                /\ _save_pending' = TRUE
                /\ owed' = OwedAfter("yes")
                /\ burst' = IF burst = BurstOff THEN burst
                            ELSE [ok |-> TRUE, calls |-> 1, flushes |-> 0, since |-> 0,
                                  early |-> FALSE]
           ELSE /\ timers' = <<>>
                /\ _save_pending' = FALSE
                /\ owed' = OwedAfter("no")
                /\ burst' = IF burst = BurstOff THEN burst ELSE NoBurst
        /\ HistReset
        /\ Returns(NoRet)

\* A restart where nothing fails and the library and the token are as before.
Restart == Start(HF_HUB_AVAILABLE, hf_token, TRUE, TRUE, "written")

\* The state after the first construction, with the library and a token: no
\* file yet and none in the Hub, so the sample data,
\* written to the file at once (_load_or_initialize_local's _save_to_hub()).
Constructed ==
    /\ stores = _initialize_sample_data
    /\ shopping_list = <<>>
    /\ budget = DefaultBudget
    /\ store_budgets = DefaultStoreBudgets
    /\ email_address = DefaultEmail
    /\ archived_lists = <<>>
    /\ _save_pending = FALSE
    /\ timers = <<>>
    /\ mainpc = "idle"
    /\ catalog_file = [stores |-> _initialize_sample_data, shopping_list |-> <<>>,
                       budget |-> DefaultBudget, store_budgets |-> DefaultStoreBudgets,
                       email_address |-> DefaultEmail, archived_lists |-> <<>>]
    /\ hub_file = catalog_file
    /\ HF_HUB_AVAILABLE = TRUE
    /\ hf_token = TRUE

\* Spec follows the runs of add-to-cart calls.
Init ==
    Constructed /\ addRun = NoRun /\ pre = PreOff /\ burst = BurstOff /\ owed = OwedOff
    /\ ret = RetOff

\* SpecArchive follows the cart around archive + restore(0).
InitArchive ==
    Constructed /\ addRun = RunOff /\ pre = NoPre /\ burst = BurstOff /\ owed = OwedOff
    /\ ret = RetOff

\* SpecUpdate and SpecRing follow no history.
InitPlain ==
    Constructed /\ addRun = RunOff /\ pre = PreOff /\ burst = BurstOff /\ owed = OwedOff
    /\ ret = RetOff

\* SpecSched follows the bursts of _schedule_save calls and the writes owed.
InitSched ==
    Constructed /\ addRun = RunOff /\ pre = PreOff /\ burst = NoBurst /\ owed = "no"
    /\ ret = RetOff

(***************************************************************************)
(* Inputs the specifications draw from.                                    *)
(***************************************************************************)
\* an id no catalog item has
UnknownId == "zz-9"
SeedIds == {"sw-1", "sw-2", "ig-1"}
IdArgs == SeedIds \cup {UnknownId}
QtyArgs == 1..MaxQty
StoreArgs == StoreNames \cup {NoneStr}

\* The bounds on an add-to-cart call: the entry stays within MaxQty and the
\* cart within MaxCart.
CanAdd(item_id, quantity) ==
    IF InCart(item_id)
    THEN shopping_list[FirstInCart(item_id)].quantity + quantity <= MaxQty
    ELSE quantity <= MaxQty /\ Len(shopping_list) < MaxCart

\* The bound on a restore: the cart stays within MaxCart.
CanRestore(archive_index) ==
    archive_index \in 0..(Len(archived_lists) - 1) =>
        Len(CartAfterRestore(shopping_list, archived_lists[archive_index + 1])) <= MaxCart

\* The calling thread's steps inside force_save.
MainStep == MainCheck \/ MainSave(TRUE, "written") \/ MainClear

(***************************************************************************)
(* Spec: the cart operations and the catalog update.  Nothing is archived, *)
(* and the timer threads do not run.                                       *)
(***************************************************************************)
NameArgs == {NoneStr, "Chicken Thighs"}
CategoryArgs == {NoneStr, "Poultry"}
PriceArgs == {NoneNum, 549}
UnitArgs == {NoneStr, "kg"}

CartAdd ==
    \E id \in IdArgs, q \in QtyArgs :
        CanAdd(id, q) /\ (add_to_shopping_list(id, q) \/ add_to_cart(id, q))

CartRemove ==
    \E id \in IdArgs : remove_from_shopping_list(id) \/ remove_from_cart(id)

CartUpdateQuantity ==
    \E id \in IdArgs, q \in QtyArgs :
        update_quantity(id, q) \/ update_item_quantity(id, q)

CartClear == clear_shopping_list \/ app_clear_shopping_list

CartUpdateItem ==
    \E id \in {"sw-1", UnknownId}, name \in NameArgs, category \in CategoryArgs,
       price \in PriceArgs, unit \in UnitArgs :
        update_catalog_item(id, name, category, price, unit)

Next ==
    \/ CartAdd
    \/ CartRemove
    \/ CartUpdateQuantity
    \/ CartClear
    \/ CartUpdateItem

Spec == Init /\ [][Next]_vars

(***************************************************************************)
(* SpecUpdate: the catalog update on carts of two items.                   *)
(***************************************************************************)
UpdateAdd ==
    \E id \in {"sw-1", "ig-1"}, q \in QtyArgs :
        CanAdd(id, q) /\ add_to_shopping_list(id, q)

UpdateRemove == \E id \in {"sw-1", "ig-1"} : remove_from_shopping_list(id)

NextUpdate ==
    \/ UpdateAdd
    \/ UpdateRemove
    \/ CartUpdateItem

SpecUpdate == InitPlain /\ [][NextUpdate]_vars

(***************************************************************************)
(* SpecArchive: archive and restore between cart operations, the ring kept *)
(* to MaxRing entries; the timer threads do not run.                       *)
(***************************************************************************)
ArchiveAdd ==
    \E id \in SeedIds : CanAdd(id, 1) /\ ~InCart(id) /\ add_to_shopping_list(id, 1)

ArchiveRemove == \E id \in SeedIds : InCart(id) /\ remove_from_cart(id)

ArchiveStore ==
    \E s \in StoreArgs : Len(archived_lists) < MaxRing /\ archive_and_restart(s)

ArchiveRestore ==
    \E i \in (0 - 1)..MaxRing : CanRestore(i) /\ restore_from_archive(i)

NextArchive ==
    \/ ArchiveAdd
    \/ ArchiveRemove
    \/ ArchiveStore
    \/ ArchiveRestore
    \/ MainStep

SpecArchive == InitArchive /\ [][NextArchive]_vars

(***************************************************************************)
(* SpecRing: the ring filled to max_archives with archives of one item,    *)
(* single and batch deletes with valid, invalid and repeated indices, and  *)
(* restarts of the process.                                                *)
(***************************************************************************)
IndexArgs == (0 - 1)..max_archives
\* the batches of at most MaxBatch indices
BatchArgs == UNION {[1..n -> IndexArgs] : n \in 0..MaxBatch}

RingAdd == ~InCart("sw-1") /\ add_to_cart("sw-1", 1)

RingArchive == \E s \in StoreArgs : archive_and_restart(s)

RingDelete == \E i \in IndexArgs : delete_archive(i)

RingDeleteMany == \E indices \in BatchArgs : delete_multiple_archives(indices)

NextRing ==
    \/ RingAdd
    \/ RingArchive
    \/ RingDelete
    \/ RingDeleteMany
    \/ MainStep
    \/ Restart

SpecRing == InitPlain /\ [][NextRing]_vars

(***************************************************************************)
(* SpecSched: the timer threads run between operations that schedule a     *)
(* save, operations that force one and operations that do neither.         *)
(***************************************************************************)
BudgetArgs == {DefaultBudget, 800}

SchedAdd ==
    /\ ~InCart("sw-1")
    /\ add_to_shopping_list("sw-1", 1) \/ add_to_cart("sw-1", 1)

SchedRemove ==
    /\ InCart("sw-1")
    /\ remove_from_shopping_list("sw-1") \/ remove_from_cart("sw-1")

SchedBudget ==
    \E b \in BudgetArgs :
        \/ set_budget(b)
        \/ update_budget(b)
        \/ save_budgets(DefaultStoreBudgets["Safeway"],
                        DefaultStoreBudgets["Indian Groceries"], b)

SchedEmail == \E e \in EmailArgs : save_email(e)

SchedArchive ==
    \/ Len(archived_lists) < MaxRing /\ archive_and_restart("Safeway")
    \/ delete_archive(0)
    \/ delete_multiple_archives(<<0>>)

SchedTimer ==
    \/ Tick
    \/ \E i \in 1..Len(timers) : TimerFire(i) \/ TimerSave(i, TRUE, "written") \/ TimerClear(i)

NextSched ==
    \/ SchedAdd
    \/ SchedRemove
    \/ SchedBudget
    \/ SchedEmail
    \/ SchedArchive
    \/ SchedTimer
    \/ MainStep
    \/ Restart

SpecSched == InitSched /\ [][NextSched]_vars

(***************************************************************************)
(* SpecFiles: processes that start from documents of this and of older     *)
(* versions, with or without the library, the token and the network, and   *)
(* whose writes may fail.                                                  *)
(***************************************************************************)
\* the document the first construction writes
SeedDoc == [Fresh EXCEPT !.stores = _initialize_sample_data]
\* a legacy document: the stores mapping alone
LegacyDoc == _initialize_sample_data
\* documents from before the Indian Groceries store was added
OldLegacyDoc == [s \in {"Safeway"} |-> _initialize_sample_data[s]]
OldDoc == [SeedDoc EXCEPT !.stores = OldLegacyDoc]
\* a document saved with an entry in the cart and another budget
UsedDoc ==
    [SeedDoc EXCEPT !.shopping_list = <<CartEntry(_initialize_sample_data["Safeway"][1], 1)>>,
                    !.budget = 500]
\* a document whose Indian Groceries store has no items
EmptiedDoc ==
    [SeedDoc EXCEPT !.stores = [_initialize_sample_data EXCEPT !["Indian Groceries"] = <<>>]]
FileArgs == {NoFile, BadFile, SeedDoc, LegacyDoc, OldLegacyDoc, OldDoc, UsedDoc, EmptiedDoc}

\* __init__ has set the fields and is about to call _load_data.
InitFiles ==
    /\ stores = Fresh.stores
    /\ shopping_list = Fresh.shopping_list
    /\ budget = Fresh.budget
    /\ store_budgets = Fresh.store_budgets
    /\ email_address = Fresh.email_address
    /\ archived_lists = Fresh.archived_lists
    /\ _save_pending = FALSE
    /\ timers = <<>>
    /\ mainpc = "init"
    /\ catalog_file \in FileArgs
    /\ hub_file \in FileArgs
    /\ HF_HUB_AVAILABLE \in BOOLEAN
    /\ hf_token \in BOOLEAN
    /\ addRun = RunOff /\ pre = PreOff /\ burst = BurstOff /\ owed = OwedOff
    /\ ret = NoRet

LoadStart ==
    \E lib, tok, hub_ok, upload \in BOOLEAN, local \in LocalOutcomes :
        Start(lib, tok, hub_ok, upload, local)

NextFiles ==
    \/ LoadStart
    \/ SchedTimer

SpecFiles == InitFiles /\ [][NextFiles]_vars

(***************************************************************************)
(* SpecFlush: one process, with or without the library and the token,      *)
(* whose uploads and local writes may fail.                                *)
(***************************************************************************)
\* The state after the first construction, with or without the library and
\* the token, nothing having failed.
InitFlush ==
    /\ stores = _initialize_sample_data
    /\ shopping_list = <<>>
    /\ budget = DefaultBudget
    /\ store_budgets = DefaultStoreBudgets
    /\ email_address = DefaultEmail
    /\ archived_lists = <<>>
    /\ _save_pending = FALSE
    /\ timers = <<>>
    /\ mainpc = "idle"
    /\ catalog_file = SeedDoc
    /\ HF_HUB_AVAILABLE \in BOOLEAN
    /\ hf_token \in BOOLEAN
    /\ hub_file = IF HF_HUB_AVAILABLE /\ hf_token THEN SeedDoc ELSE NoFile
    /\ addRun = RunOff /\ pre = PreOff /\ burst = BurstOff /\ owed = OwedOff
    /\ ret = NoRet

FlushAdd == ~InCart("sw-1") /\ add_to_shopping_list("sw-1", 1)

FlushArchive == Len(archived_lists) < MaxRing /\ archive_and_restart("Safeway")

FlushTimer ==
    \/ Tick
    \/ \E i \in 1..Len(timers) :
          \/ TimerFire(i)
          \/ \E upload \in BOOLEAN, local \in LocalOutcomes : TimerSave(i, upload, local)
          \/ TimerClear(i)

FlushMain ==
    \/ MainCheck
    \/ \E upload \in BOOLEAN, local \in LocalOutcomes : MainSave(upload, local)
    \/ MainClear

NextFlush ==
    \/ FlushAdd
    \/ FlushArchive
    \/ FlushTimer
    \/ FlushMain

SpecFlush == InitFlush /\ [][NextFlush]_vars

(***************************************************************************)
(* Properties of the cart and of the catalog update, checked under Spec    *)
(* and SpecUpdate.                                                         *)
(***************************************************************************)
\* C1: after a run of add-to-cart calls that name one catalog item id (the
\* first of them made while the cart holds no entry with that id, and no other
\* cart operation in between), the cart holds exactly one entry with that id,
\* and its quantity is the sum of the quantities the calls asked for.
C1_AddRunSumsQuantities ==
    addRun.calls >= 1 =>
        LET at == {i \in 1..Len(shopping_list) : shopping_list[i].id = addRun.id}
        IN  /\ Cardinality(at) = 1
            /\ \A i \in at : shopping_list[i].quantity = addRun.total

\* A run of two calls for sw-1 has been made, beside an entry of another item.
C1_Witness ==
    /\ addRun.id = "sw-1"
    /\ addRun.calls = 2
    /\ addRun.total = 2
    /\ Len(shopping_list) = 2

\* C5: update_catalog_item on an item the catalog holds sets each given field
\* (name, category, price, unit) on the catalog item and on the cart entries
\* with its id, keeps the fields not given and the quantity, leaves every
\* other catalog item and cart entry as it was, and leaves the cart as it was
\* when no entry has the id.
C5_UpdateItemPatchesCatalogAndCart ==
    [][\A item_id \in {"sw-1", UnknownId}, name \in NameArgs, category \in CategoryArgs,
          price \in PriceArgs, unit \in UnitArgs :
         (InCatalog(item_id)
            /\ update_catalog_item(item_id, name, category, price, unit)) =>
           LET Given(new, none, old) == IF new = none THEN old ELSE new
               Patched(old, new) ==
                   /\ new.id = old.id
                   /\ new.store = old.store
                   /\ new.name = Given(name, NoneStr, old.name)
                   /\ new.category = Given(category, NoneStr, old.category)
                   /\ new.price = Given(price, NoneNum, old.price)
                   /\ new.unit = Given(unit, NoneStr, old.unit)
           IN  /\ \A s \in StoreNames :
                     /\ Len(stores'[s]) = Len(stores[s])
                     /\ \A i \in 1..Len(stores[s]) :
                           IF stores[s][i].id = item_id
                           THEN Patched(stores[s][i], stores'[s][i])
                           ELSE stores'[s][i] = stores[s][i]
               /\ Len(shopping_list') = Len(shopping_list)
               /\ \A i \in 1..Len(shopping_list) :
                     IF shopping_list[i].id = item_id
                     THEN /\ Patched(shopping_list[i], shopping_list'[i])
                          /\ shopping_list'[i].quantity = shopping_list[i].quantity
                     ELSE shopping_list'[i] = shopping_list[i]
               /\ (~InCart(item_id) => shopping_list' = shopping_list)]_vars

\* The name and the price of sw-1 have been updated in the catalog and in its
\* cart entry of quantity 2, the category and the unit were not given, and
\* the cart holds an entry of another item.
C5_Witness ==
    /\ CatalogItem("sw-1").name = "Chicken Thighs"
    /\ CatalogItem("sw-1").price = 549
    /\ CatalogItem("sw-1").category = "Meat"
    /\ \E i, j \in 1..Len(shopping_list) :
          /\ shopping_list[i].id = "sw-1"
          /\ shopping_list[i].name = "Chicken Thighs"
          /\ shopping_list[i].price = 549
          /\ shopping_list[i].unit = "lb"
          /\ shopping_list[i].quantity = 2
          /\ shopping_list[j].id = "ig-1"

(***************************************************************************)
(* Properties of archive and restore, checked under SpecArchive.           *)
(***************************************************************************)
\* C2: the cart never holds two entries with the same item id.
C2_OneEntryPerId ==
    \A i, j \in 1..Len(shopping_list) :
        shopping_list[i].id = shopping_list[j].id => i = j

\* C3: archive_and_restart(s) for a store s with a cart entry, followed at
\* once by restore_from_archive(0), leaves the cart with the entries of s it
\* held before the archive (ids, quantities, prices) and with the entries of
\* the other stores as they were.
C3_ArchiveThenRestore ==
    pre.phase = "restored" =>
        /\ OfStore(shopping_list, pre.store) = pre.mine
        /\ NotOfStore(shopping_list, pre.store) = pre.others

\* Safeway was archived out of a cart that also held an entry of the other
\* store, onto a ring that held an older archive, and restored.
C3_Witness ==
    /\ pre.phase = "restored"
    /\ pre.store = "Safeway"
    /\ pre.mine # <<>>
    /\ pre.others # <<>>
    /\ Len(archived_lists) = 2

(***************************************************************************)
(* Properties of the ring, checked under SpecRing.                         *)
(***************************************************************************)
\* C4: the ring never holds more than max_archives (6) entries, and an
\* archive_and_restart that succeeds on a ring of exactly 6 entries puts the
\* new entry at index 0, moves the former entries 0..4 to 1..5 in their order,
\* and drops exactly the former last entry.
C4_RingCapacity ==
    /\ [](Len(archived_lists) <= max_archives)
    /\ [][\A s \in StoreArgs :
            (/\ Len(archived_lists) = max_archives
             /\ Selected(shopping_list, s) # <<>>
             /\ archive_and_restart(s)) =>
                /\ Len(archived_lists') = max_archives
                /\ archived_lists'[1].store = (IF s = NoneStr THEN AllStores ELSE s)
                /\ archived_lists'[1].items = Selected(shopping_list, s)
                /\ \A i \in 1..(max_archives - 1) :
                      archived_lists'[i + 1] = archived_lists[i]]_vars

\* An archive has just been put on a ring that was full: the file still holds
\* the six entries of before, whose last is not among the six of now.
C4_Witness ==
    /\ mainpc = "check"
    /\ Len(archived_lists) = max_archives
    /\ Len(catalog_file.archived_lists) = max_archives
    /\ archived_lists # catalog_file.archived_lists
    /\ archived_lists[1].store = AllStores
    /\ catalog_file.archived_lists[max_archives].store = "Safeway"
    /\ \A i \in 1..(max_archives - 1) :
          archived_lists[i + 1] = catalog_file.archived_lists[i]

\* C6: delete_multiple_archives removes exactly the entries whose position
\* in the ring before the call is a valid index of the batch, whatever the
\* order of the batch, repeated and invalid indices included, and keeps the
\* other entries in their order.
C6_DeleteManyRemovesTheBatch ==
    [][\A indices \in BatchArgs :
         delete_multiple_archives(indices) =>
           LET named == {indices[k] : k \in 1..Len(indices)}
               kept == SelectSeq([p \in 1..Len(archived_lists) |-> p],
                                 LAMBDA p : (p - 1) \notin named)
           IN  archived_lists' = [k \in 1..Len(kept) |-> archived_lists[kept[k]]]]_vars

(***************************************************************************)
(* Properties of the save scheduler, checked under SpecSched.              *)
(***************************************************************************)
\* C7: when _schedule_save is called one or more times, each call after the
\* first before the timer armed by the call before it has expired, the
\* document is written exactly once, and not before _save_delay seconds have
\* passed since the last call.
C7_OneFlushPerBurst ==
    burst.ok =>
        /\ burst.flushes <= 1
        /\ ~burst.early
        /\ (timers = <<>> /\ mainpc = "idle") => burst.flushes = 1

\* A burst of three calls is over, with its one write.
C7_Witness ==
    /\ burst.ok
    /\ burst.calls = 3
    /\ burst.flushes = 1
    /\ ~burst.early
    /\ timers = <<>>
    /\ ~_save_pending

\* C8: every operation that changes the catalog, the cart, the budgets, the
\* email setting or the ring leaves the debounce timer armed or goes on to a
\* write of the document before it returns.
C8_MutationsNotifyScheduler ==
    [][(mainpc = "idle" /\ Data' # Data /\ ~Restart) =>
          /\ _save_pending'
          /\ \/ mainpc' = "check"
             \/ \E i \in 1..Len(timers') : timers'[i].pc = "wait" /\ timers'[i].cur]_vars

\* C9: once the threads are at rest, no _schedule_save call is left without
\* a write of the document that started after it, and the pending flag is
\* clear.
C9_ScheduledSaveIsWritten ==
    (timers = <<>> /\ mainpc = "idle") => (owed # "yes" /\ ~_save_pending)

\* C10: when archive_and_restart, delete_archive or delete_multiple_archives
\* returns from its force_save, the file holds the state the operation left
\* and the pending flag is clear.
C10_ForceSaveFlushesBeforeReturn ==
    [][(mainpc # "idle" /\ mainpc' = "idle" /\ ~Restart) =>
          (catalog_file' = Data' /\ ~_save_pending')]_vars

(***************************************************************************)
(* SpecOutcome: calls whose arguments are out of range (quantities below   *)
(* 1, unknown ids, stores with nothing in the cart, indices outside the    *)
(* ring) among calls that succeed, with what each call returns; one item   *)
(* and a ring of at most one archive.                                      *)
(***************************************************************************)
InitOutcome ==
    Constructed /\ addRun = RunOff /\ pre = PreOff /\ burst = BurstOff /\ owed = OwedOff
    /\ ret = NoRet

\* the integers a quantity argument is drawn from
IntArgs == (0 - 1)..MaxQty

\* The bounds on an add-to-cart call with any integer: the entry's quantity
\* stays within IntArgs and the cart within MaxCart.
CanAddInt(item_id, quantity) ==
    IF InCart(item_id)
    THEN shopping_list[FirstInCart(item_id)].quantity + quantity \in IntArgs
    ELSE Len(shopping_list) < MaxCart

OutcomeAdd ==
    \E q \in IntArgs :
        CanAddInt("sw-1", q) /\ (add_to_shopping_list("sw-1", q) \/ add_to_cart("sw-1", q))

OutcomeUpdate ==
    \E id \in {"sw-1", UnknownId}, q \in IntArgs :
        update_quantity(id, q) \/ update_item_quantity(id, q)

\* one archive at a time
OutcomeArchive ==
    \E s \in StoreArgs : archived_lists = <<>> /\ archive_and_restart(s)

OutcomeRestore ==
    \E i \in (0 - 1)..1 : CanRestore(i) /\ restore_from_archive(i)

\* the archive is deleted once the cart has been emptied again
OutcomeDelete == shopping_list = <<>> /\ delete_archive(0)

NextOutcome ==
    \/ OutcomeAdd
    \/ OutcomeUpdate
    \/ OutcomeArchive
    \/ OutcomeRestore
    \/ OutcomeDelete
    \/ MainStep

SpecOutcome == InitOutcome /\ [][NextOutcome]_vars

(***************************************************************************)
(* SpecCatalog: the catalog editor adds, renames and deletes items.        *)
(***************************************************************************)
ItemNameArgs == {"", "Milk", " MILK ", "Ghee"}
ItemCategoryArgs == {"", "Dairy"}
ItemPriceArgs == {0, 250}

\* The bounds on an add to the catalog: at most MaxItems added items in the
\* store at a time, and ids that end in a number of IdNums.
CanAddItem(store_name) ==
    LET prefix == IdPrefix(store_name)
        added == {i \in DOMAIN stores[store_name] :
                     SuffixOf(stores[store_name][i].id, prefix) > 0}
    IN  /\ Cardinality(added) < MaxItems
        /\ MaxSuffix(stores[store_name], prefix) + 1 \in IdNums

CatalogAddItem ==
    \E s \in StoreNames, name \in ItemNameArgs, category \in ItemCategoryArgs,
       price \in ItemPriceArgs :
        CanAddItem(s) /\ add_catalog_item(s, name, category, price, "gal")

CatalogDeleteItem ==
    \E id \in {"", "sw-1", UnknownId} \cup {MakeId("sa", n) : n \in IdNums} :
        delete_catalog_item("Safeway", id)

CatalogRenameItem ==
    \E id \in {"", "sw-2", UnknownId}, name \in {"", "Chicken Breast", "Milk"},
       price \in ItemPriceArgs :
        update_catalog_item_handler(id, name, price, "Meat")

NextCatalog ==
    \/ CatalogAddItem
    \/ CatalogDeleteItem
    \/ CatalogRenameItem

SpecCatalog == InitOutcome /\ [][NextCatalog]_vars

(***************************************************************************)
(* SpecReuse: items are added to Safeway's catalog and deleted from it     *)
(* while the cart and the archives hold entries of them.                   *)
(***************************************************************************)
ReuseAddItem ==
    \E name \in {"Milk", "Ghee"} :
        CanAddItem("Safeway") /\ add_catalog_item("Safeway", name, "Dairy", 250, "gal")

ReuseDeleteItem ==
    \E n \in IdNums : delete_catalog_item("Safeway", MakeId("sa", n))

\* the cart holds entries of one id at a time
ReuseCartAdd ==
    \E n \in IdNums :
        /\ shopping_list = <<>> \/ InCart(MakeId("sa", n))
        /\ CanAdd(MakeId("sa", n), 1)
        /\ add_to_shopping_list(MakeId("sa", n), 1)

\* one archive at a time
ReuseArchive == archived_lists = <<>> /\ archive_and_restart("Safeway")

NextReuse ==
    \/ ReuseAddItem
    \/ ReuseDeleteItem
    \/ ReuseCartAdd
    \/ ReuseArchive
    \/ MainStep

SpecReuse == InitPlain /\ [][NextReuse]_vars

(***************************************************************************)
(* SpecSnapshot: the cart and the catalog change after sw-1 was archived,  *)
(* and archives are restored.                                              *)
(***************************************************************************)
SnapshotAdd == CanAdd("sw-1", 1) /\ add_to_shopping_list("sw-1", 1)

SnapshotUpdateQuantity == \E q \in QtyArgs : update_quantity("sw-1", q)

SnapshotRemove == remove_from_shopping_list("sw-1")

SnapshotClear == clear_shopping_list

SnapshotUpdateItem ==
    update_catalog_item("sw-1", "Chicken Thighs", NoneStr, NoneNum, NoneStr)

SnapshotDeleteItem == delete_catalog_item("Safeway", "sw-1")

SnapshotArchive ==
    \E s \in {"Safeway", NoneStr} : Len(archived_lists) < MaxRing /\ archive_and_restart(s)

\* restores that leave the cart with one entry of an id
SnapshotRestore ==
    \E i \in 0..(Len(archived_lists) - 1) :
        /\ LET lst == CartAfterRestore(shopping_list, archived_lists[i + 1])
           IN  \A a, b \in DOMAIN lst : lst[a].id = lst[b].id => a = b
        /\ restore_from_archive(i)

NextSnapshot ==
    \/ SnapshotAdd
    \/ SnapshotUpdateQuantity
    \/ SnapshotRemove
    \/ SnapshotClear
    \/ SnapshotUpdateItem
    \/ SnapshotDeleteItem
    \/ SnapshotArchive
    \/ SnapshotRestore
    \/ MainStep

SpecSnapshot == InitPlain /\ [][NextSnapshot]_vars

(***************************************************************************)
(* SpecSummary: get_archive_summary on rings of one or two archives of     *)
(* Costco items, with more item names than the summary lists.              *)
(***************************************************************************)
\* the first items of Costco in _initialize_sample_data
SummaryItems ==
    << Item("co-1", "Kirkland Paper Towels 12-pack", "Bulk Household", 1999, "pack", "Costco"),
       Item("co-2", "Toilet Paper 30-pack", "Bulk Household", 2499, "pack", "Costco"),
       Item("co-3", "Trash Bags", "Bulk Household", 1899, "box", "Costco"),
       Item("co-4", "Laundry Detergent", "Bulk Household", 1999, "container", "Costco"),
       Item("co-5", "Dish Soap 2-pack", "Bulk Household", 999, "pack", "Costco"),
       Item("co-6", "Chicken Thighs 5 lbs", "Bulk Meat", 1499, "package", "Costco"),
       Item("co-7", "Ground Turkey 3 lbs", "Bulk Meat", 1299, "package", "Costco"),
       Item("co-8", "Salmon 3 lbs", "Bulk Meat", 2999, "package", "Costco"),
       Item("co-9", "Quinoa 5 lbs", "Bulk Pantry", 1299, "bag", "Costco"),
       Item("co-10", "Olive Oil 2L", "Bulk Pantry", 1499, "bottle", "Costco"),
       Item("co-11", "Honey 3 lbs", "Bulk Pantry", 1199, "jar", "Costco"),
       Item("co-12", "Mixed Nuts 3 lbs", "Bulk Pantry", 1599, "container", "Costco"),
       Item("co-13", "Peanut Butter 2-pack", "Bulk Pantry", 999, "pack", "Costco") >>

\* the quantities of the archived entries
SummaryQty == {1, 2}

\* The ring: an archive of the first k Costco items with quantities f, and,
\* for j > 0, an archive of item j (the first or the last of them) alone,
\* taken after it (front) or before.
SummaryRing(k, f, j, front) ==
    LET main == ArchiveEntry("Costco", [i \in 1..k |-> CartEntry(SummaryItems[i], f[i])])
        one == ArchiveEntry("Costco", <<CartEntry(SummaryItems[j], 1)>>)
    IN  IF k = 0 THEN <<>>
        ELSE IF j = 0 THEN <<main>>
        ELSE IF front THEN <<one, main>>
        ELSE <<main, one>>

InitSummary ==
    /\ stores = _initialize_sample_data
    /\ shopping_list = <<>>
    /\ budget = DefaultBudget
    /\ store_budgets = DefaultStoreBudgets
    /\ email_address = DefaultEmail
    /\ \E k \in 0..MaxNames : \E f \in [1..k -> SummaryQty], j \in {0, 1, k}, front \in BOOLEAN :
          archived_lists = SummaryRing(k, f, j, front)
    /\ _save_pending = FALSE
    /\ timers = <<>>
    /\ mainpc = "idle"
    /\ catalog_file = NoFile
    /\ hub_file = NoFile
    /\ HF_HUB_AVAILABLE = FALSE
    /\ hf_token = FALSE
    /\ addRun = RunOff /\ pre = PreOff /\ burst = BurstOff /\ owed = OwedOff
    /\ ret = [called |-> FALSE]

\* a call of get_archive_summary; ret holds what it returned
Summarize ==
    /\ ~ret.called
    /\ ret' = [called |-> TRUE, summary |-> get_archive_summary(archived_lists)]
    /\ UNCHANGED state

NextSummary == Summarize

SpecSummary == InitSummary /\ [][NextSummary]_vars

(***************************************************************************)
(* SpecThreads: the timer threads run between the statements of the        *)
(* calling thread's archive_and_restart and force_save.  The cart holds    *)
(* sw-1 or nothing, and every write succeeds.                              *)
(***************************************************************************)
ThreadsAdd == ~InCart("sw-1") /\ add_to_shopping_list("sw-1", 1)

ThreadsArchiveInsert == Len(archived_lists) < MaxRing /\ archive_insert("Safeway")

ThreadsArchiveRemove == archive_remove

NextThreads ==
    \/ ThreadsAdd
    \/ ThreadsArchiveInsert
    \/ ThreadsArchiveRemove
    \/ SchedTimer
    \/ MainStep

SpecThreads == InitPlain /\ [][NextThreads]_vars

(***************************************************************************)
(* Properties of the flush, checked under SpecFlush.                       *)
(***************************************************************************)
\* C11 as stated: every flush whose remote write is unavailable or fails (no
\* library, no token, or an upload error) leaves the local file holding the
\* document of the in-memory state, and returns to its caller.
C11_RemoteFailureLeavesLocalCopy ==
    [][\A i \in 1..Len(timers), upload \in BOOLEAN, local \in LocalOutcomes :
         (/\ ~(HF_HUB_AVAILABLE /\ hf_token /\ upload)
          /\ MainSave(upload, local) \/ TimerSave(i, upload, local)) =>
             catalog_file' = Data]_vars

\* C11, amended: every flush whose remote write is unavailable or fails and
\* whose local write succeeds leaves the local file holding the document of
\* the in-memory state and the Hub file as it was; and every flush, whatever
\* fails in it, returns to its caller, which goes on to clear the flag.
C11_LocalFallback ==
    [][\A upload \in BOOLEAN, local \in LocalOutcomes :
         /\ MainSave(upload, local) =>
               /\ mainpc' = "clear"
               /\ (~(HF_HUB_AVAILABLE /\ hf_token /\ upload) /\ local = "written") =>
                     (catalog_file' = Data /\ hub_file' = hub_file)
         /\ \A i \in 1..Len(timers) :
               TimerSave(i, upload, local) =>
                 /\ timers'[i].pc = "clear"
                 /\ (~(HF_HUB_AVAILABLE /\ hf_token /\ upload) /\ local = "written") =>
                       (catalog_file' = Data /\ hub_file' = hub_file)]_vars

\* force_save has just written an archive to the local file while the
\* upload failed: the Hub file is behind.
C11_Witness ==
    /\ mainpc = "clear"
    /\ HF_HUB_AVAILABLE /\ hf_token
    /\ archived_lists # <<>>
    /\ catalog_file = Data
    /\ hub_file # Data

\* C12: no flush changes the catalog, the cart, the budgets, the email
\* setting or the ring, whether the upload succeeds, the upload fails and the
\* local write succeeds, or both fail; and the archive_and_restart that
\* forced the flush still returns True.
C12_FlushKeepsMemory ==
    /\ [](mainpc \in {"check", "save", "clear"} => ret = "True")
    /\ [][/\ \A upload \in BOOLEAN, local \in LocalOutcomes :
              (\/ MainSave(upload, local)
               \/ \E i \in 1..Len(timers) : TimerSave(i, upload, local)) =>
                  UNCHANGED <<dataVars, ret>>
          /\ (mainpc # "idle" /\ mainpc' = "idle") => ret' = "True"]_vars

\* force_save's flush after an archive has failed to write either file: the
\* ring holds the archive, the files do not.
C12_Witness ==
    /\ mainpc = "clear"
    /\ ret = "True"
    /\ HF_HUB_AVAILABLE /\ hf_token
    /\ Len(archived_lists) = 1
    /\ shopping_list = <<>>
    /\ catalog_file # Data
    /\ hub_file # Data

(***************************************************************************)
(* Properties of the start, checked under SpecFiles.                       *)
(***************************************************************************)
\* A file that is there and parses.
Readable(f) == f # NoFile /\ f # BadFile

\* The catalog a document holds, for a document of either format.
StoresIn(doc) == IF "stores" \in DOMAIN doc THEN doc.stores ELSE doc

\* Whether a catalog has the Indian Groceries store with items in it.
HasIndian(st) == "Indian Groceries" \in DOMAIN st /\ st["Indian Groceries"] # <<>>

\* What the start has in memory but for the Indian Groceries store it may add.
SameButIndian(st) ==
    \A s \in (DOMAIN st \cup DOMAIN stores') \ {"Indian Groceries"} :
        s \in DOMAIN st /\ s \in DOMAIN stores' /\ stores'[s] = st[s]

\* C13: the start tries the Hub, then the local file, then the sample data,
\* and uses the first that succeeds: the Hub's document when the library, the
\* token, the download and the parse are there; the local file only when
\* the Hub gave nothing; the sample data only when the local file gave
\* nothing either, and the local file is created only then and only when it
\* was absent.
C13_LoadOrder ==
    [][\A lib, tok, hub_ok, upload \in BOOLEAN, local \in LocalOutcomes :
         Start(lib, tok, hub_ok, upload, local) =>
            IF lib /\ tok /\ hub_ok /\ Readable(hub_file)
            THEN /\ SameButIndian(IF "stores" \in DOMAIN hub_file THEN hub_file.stores
                                  ELSE <<>>)
                 /\ "shopping_list" \in DOMAIN hub_file =>
                        shopping_list' = hub_file.shopping_list
                 /\ UNCHANGED <<catalog_file, hub_file>>
            ELSE IF Readable(catalog_file)
            THEN /\ SameButIndian(StoresIn(catalog_file))
                 /\ "stores" \in DOMAIN catalog_file =>
                        /\ shopping_list' = catalog_file.shopping_list
                        /\ budget' = catalog_file.budget
                 /\ UNCHANGED <<catalog_file, hub_file>>
            ELSE /\ stores' = _initialize_sample_data
                 /\ shopping_list' = <<>> /\ archived_lists' = <<>>
                 /\ budget' = DefaultBudget
                 /\ catalog_file # NoFile => UNCHANGED <<catalog_file, hub_file>>]_vars

\* A start has taken the local file's document, cart and budget, while the
\* Hub holds another that it could not get.
C13_Witness ==
    /\ mainpc = "idle"
    /\ catalog_file = UsedDoc
    /\ hub_file = OldDoc
    /\ Len(shopping_list) = 1
    /\ budget = 500
    /\ stores = _initialize_sample_data

\* C14: after a start by any path the catalog has the Indian Groceries store
\* with items in it, and a save is scheduled (the flag set and a timer
\* waiting) exactly when the document the start used did not have them.
C14_IndianGroceriesEnsured ==
    [][\A lib, tok, hub_ok, upload \in BOOLEAN, local \in LocalOutcomes :
         Start(lib, tok, hub_ok, upload, local) =>
            LET had == IF lib /\ tok /\ hub_ok /\ Readable(hub_file)
                       THEN "stores" \in DOMAIN hub_file /\ HasIndian(hub_file.stores)
                       ELSE IF Readable(catalog_file)
                       THEN HasIndian(StoresIn(catalog_file))
                       ELSE TRUE
            IN  /\ HasIndian(stores')
                /\ _save_pending' = ~had
                /\ (\E i \in 1..Len(timers') : timers'[i].pc = "wait") = ~had]_vars

\* A start from a document whose Indian Groceries store was empty: the store
\* is filled and the save waits.
C14_Witness ==
    /\ mainpc = "idle"
    /\ ~HF_HUB_AVAILABLE
    /\ catalog_file = EmptiedDoc
    /\ stores = _initialize_sample_data
    /\ _save_pending
    /\ timers = <<NewTimer>>

\* C15: a start that takes a legacy document (the stores mapping, without
\* the wrapper keys), from the Hub or from the local file, has that mapping
\* as its catalog (with the Indian Groceries store the start may add), an
\* empty cart, an empty ring, and the budgets and the email of __init__.
C15_LegacyDocumentLoads ==
    [][\A lib, tok, hub_ok, upload \in BOOLEAN, local \in LocalOutcomes :
         Start(lib, tok, hub_ok, upload, local) =>
            LET remote == lib /\ tok /\ hub_ok /\ Readable(hub_file)
                doc == IF remote THEN hub_file ELSE catalog_file
            IN  (Readable(doc) /\ "stores" \notin DOMAIN doc) =>
                    /\ SameButIndian(doc)
                    /\ shopping_list' = <<>>
                    /\ archived_lists' = <<>>
                    /\ budget' = DefaultBudget
                    /\ \A s \in DOMAIN DefaultStoreBudgets :
                          s \in DOMAIN store_budgets'
                          /\ store_budgets'[s] = DefaultStoreBudgets[s]
                    /\ email_address' = DefaultEmail]_vars

(***************************************************************************)
(* Properties of the restore, checked under SpecArchive.                   *)
(***************************************************************************)
\* C16: restore_from_archive of an archive taken of all stores leaves the
\* cart holding exactly the archive's items, whatever it held before; of an
\* archive of one store, it leaves the entries of the other stores followed
\* by the archive's items.
C16_RestoreReplacesWhatItArchived ==
    [][\A i \in 0..(MaxRing - 1) :
         (i < Len(archived_lists) /\ restore_from_archive(i)) =>
            LET a == archived_lists[i + 1]
            IN  IF a.store = AllStores
                THEN shopping_list' = a.items
                ELSE shopping_list' =
                        SelectSeq(shopping_list, LAMBDA e : e.store # a.store) \o a.items]_vars

(***************************************************************************)
(* Properties of the totals, checked under SpecUpdate.                     *)
(***************************************************************************)
\* The sum of price * quantity over the entries of lst at the positions in S.
RECURSIVE LineSum(_, _)
LineSum(lst, S) ==
    IF S = {} THEN 0
    ELSE LET i == CHOOSE k \in S : TRUE
         IN  lst[i].price * lst[i].quantity + LineSum(lst, S \ {i})

\* The amount in cents that a formatted amount shows.
CentsShown(m) == (IF m.neg THEN 0 - 1 ELSE 1) * (m.dollars * 100 + m.cents)

RECURSIVE ShownSum(_)
ShownSum(S) ==
    IF S = {} THEN 0
    ELSE LET s == CHOOSE t \in S : TRUE
         IN  CentsShown(get_store_total(s)) + ShownSum(S \ {s})

\* C17: in every state get_total_cost is the sum of price * quantity over the
\* cart's entries, get_store_total(s) shows that sum over the entries of
\* store s, and the amounts shown for the stores add up to get_total_cost;
\* one entry of price 2.00 and quantity 3 gives 6.00.
C17_TotalsAreLineSums ==
    /\ get_total_cost = LineSum(shopping_list, DOMAIN shopping_list)
    /\ \A s \in StoreNames :
          CentsShown(get_store_total(s)) =
              LineSum(shopping_list, {i \in DOMAIN shopping_list : shopping_list[i].store = s})
    /\ ShownSum(StoreNames) = get_total_cost
    /\ TotalOf(<<CartEntry(Item("tj-1", "Bananas", "Produce", 200, "lb", "Trader Joe's"), 3)>>) = 600
    /\ Money(600) = [neg |-> FALSE, dollars |-> 6, cents |-> 0]

\* A cart with entries of both stores, one of quantity 2 at a changed price.
C17_Witness ==
    /\ Len(shopping_list) = 2
    /\ \E i, j \in DOMAIN shopping_list :
          /\ shopping_list[i].store = "Safeway" /\ shopping_list[i].quantity = 2
          /\ shopping_list[i].price = 549
          /\ shopping_list[j].store = "Indian Groceries"
    /\ get_total_cost = 2 * 549 + 499

(***************************************************************************)
(* Properties of the calls' outcomes, checked under SpecOutcome.           *)
(***************************************************************************)
\* C18: in every state every cart entry has a quantity of at least 1,
\* whatever integers add_to_shopping_list, add_to_cart, update_quantity,
\* update_item_quantity and restore_from_archive were called with; an
\* update of the quantity to less than 1, or for an id that is not in the
\* cart, leaves the cart as it was.
C18_QuantitiesAtLeastOne ==
    /\ [](\A i \in DOMAIN shopping_list : shopping_list[i].quantity >= 1)
    /\ [][\A id \in {"sw-1", UnknownId}, q \in IntArgs :
            ((q < 1 \/ ~InCart(id))
                /\ (update_quantity(id, q) \/ update_item_quantity(id, q))) =>
                    UNCHANGED shopping_list]_vars

\* C19: restore_from_archive with an index outside the ring (negative, or at
\* least the ring's length, so any index on an empty ring) ends with an
\* IndexError, leaves the cart and the ring as they were and schedules no
\* save.
C19_RestoreOutOfBoundsRaises ==
    [][\A i \in (0 - 1)..1 :
         ((i < 0 \/ i >= Len(archived_lists)) /\ restore_from_archive(i)) =>
            /\ ret' = "IndexError"
            /\ UNCHANGED <<shopping_list, archived_lists, _save_pending, timers>>]_vars

\* C20: archive_and_restart(s) with no cart entry of store s, or of all
\* stores with an empty cart, returns the nothing-to-archive result, leaves
\* the cart and the ring as they were, and flushes nothing: force_save is
\* not entered and no file is written.
C20_NothingToArchive ==
    [][\A s \in StoreArgs :
         (/\ IF s = NoneStr THEN shopping_list = <<>>
             ELSE \A i \in DOMAIN shopping_list : shopping_list[i].store # s
          /\ archive_and_restart(s)) =>
            /\ ret' = "No items to archive"
            /\ UNCHANGED <<shopping_list, archived_lists>>
            /\ mainpc' = "idle"
            /\ UNCHANGED <<catalog_file, hub_file, _save_pending, timers>>]_vars

\* An archive of a store with nothing in the cart was refused while the cart
\* held an entry of another store and its save was waiting.
C20_Witness ==
    /\ ret = "No items to archive"
    /\ shopping_list # <<>>
    /\ archived_lists = <<>>
    /\ mainpc = "idle"
    /\ catalog_file # Data

(***************************************************************************)
(* Properties of the archive, checked under SpecArchive.                   *)
(***************************************************************************)
\* How many times e occurs in lst.
Occurrences(e, lst) == Cardinality({i \in DOMAIN lst : lst[i] = e})

\* C21: an archive_and_restart(s) that archives moves entries without losing
\* or duplicating any: each entry occurs in the cart before as many times as
\* in the cart after and in the new front archive's items together, the cart
\* after has no entry of store s (no entry at all for all stores), and the
\* new archive's item_count is the number of its items.
C21_ArchiveMovesEntries ==
    [][\A s \in StoreArgs :
         (archive_and_restart(s) /\ Len(archived_lists') > Len(archived_lists)) =>
            LET new == archived_lists'[1]
                all == {shopping_list[i] : i \in DOMAIN shopping_list}
                          \cup {shopping_list'[i] : i \in DOMAIN shopping_list'}
                          \cup {new.items[i] : i \in DOMAIN new.items}
            IN  /\ \A e \in all :
                      Occurrences(e, shopping_list) =
                          Occurrences(e, shopping_list') + Occurrences(e, new.items)
                /\ IF s = NoneStr THEN shopping_list' = <<>>
                   ELSE \A i \in DOMAIN shopping_list' : shopping_list'[i].store # s
                /\ new.item_count = Len(new.items)
                /\ new.items # <<>>
                /\ SubSeq(archived_lists', 2, Len(archived_lists')) = archived_lists]_vars

\* Safeway's one entry has just been archived out of a cart that keeps its
\* entry of the other store.
C21_Witness ==
    /\ mainpc = "check"
    /\ archived_lists # <<>>
    /\ archived_lists[1].store = "Safeway"
    /\ archived_lists[1].item_count = 1
    /\ Len(shopping_list) = 1
    /\ shopping_list[1].store = "Indian Groceries"

(***************************************************************************)
(* Properties of the catalog editor, checked under SpecCatalog.            *)
(***************************************************************************)
\* No store holds two items whose names are equal but for the case.
NamesUnique ==
    \A s \in DOMAIN stores : \A i, j \in DOMAIN stores[s] :
        i # j => Lower(stores[s][i].name) # Lower(stores[s][j].name)

\* C22 as stated: in every state reached by add_catalog_item,
\* update_catalog_item_handler and delete_catalog_item from a catalog with
\* unique names, no store holds two items whose names are equal but for the
\* case.
C22_NamesStayUnique == NamesUnique

\* C22, amended: add_catalog_item and delete_catalog_item keep the names of
\* each store unique but for the case, so every state reached by them alone
\* from a catalog with unique names has unique names; the update does not
\* look at the other items' names.
C22_AddAndDeleteKeepNamesUnique ==
    [][(NamesUnique /\ ~NamesUnique') =>
         /\ \A s \in StoreNames, name \in ItemNameArgs, category \in ItemCategoryArgs,
               price \in ItemPriceArgs :
              ~add_catalog_item(s, name, category, price, "gal")
         /\ \A id \in {"sw-1"} \cup {MakeId("sa", n) : n \in IdNums} :
              ~delete_catalog_item("Safeway", id)
         /\ \E name \in {"Chicken Breast", "Milk"}, price \in ItemPriceArgs :
              update_catalog_item_handler("sw-2", name, price, "Meat")]_vars

\* An add of a name that differs from an item's name by its case and by
\* blanks around it has been refused.
C22_Witness ==
    /\ ret = "already exists"
    /\ NamesUnique
    /\ \E i \in DOMAIN stores["Safeway"] : stores["Safeway"][i].name = "Milk"
    /\ \E i \in DOMAIN stores["Indian Groceries"] :
          stores["Indian Groceries"][i].name = "MILK"

\* C23: add_catalog_item fails and leaves the catalog, the cart, the flag and
\* the timers as they were when the name or the category is missing, when
\* the price is not above 0, or when the store holds an item whose name
\* equals the trimmed new name but for the case; in every other case it
\* appends one item to that store's list, leaves the other stores alone and
\* schedules a save.
C23_AddItemValidates ==
    [][\A s \in StoreNames, name \in ItemNameArgs, category \in ItemCategoryArgs,
          price \in ItemPriceArgs :
         add_catalog_item(s, name, category, price, "gal") =>
            IF \/ name = "" \/ category = "" \/ price <= 0
               \/ \E i \in DOMAIN stores[s] : Lower(stores[s][i].name) = Lower(Strip(name))
            THEN /\ UNCHANGED <<stores, shopping_list, _save_pending, timers>>
                 /\ ret' \in {"Please fill in all fields with valid values", "already exists"}
            ELSE /\ Len(stores'[s]) = Len(stores[s]) + 1
                 /\ SubSeq(stores'[s], 1, Len(stores[s])) = stores[s]
                 /\ stores'[s][Len(stores'[s])].name = Strip(name)
                 /\ stores'[s][Len(stores'[s])].store = s
                 /\ \A t \in DOMAIN stores \ {s} : stores'[t] = stores[t]
                 /\ UNCHANGED shopping_list
                 /\ ret' = "ok"
                 /\ _save_pending'
                 /\ \E i \in DOMAIN timers' : timers'[i].pc = "wait"]_vars

\* An item entered as " MILK " has been appended to Safeway's seed items,
\* with its name trimmed, and its save waits.
C23_Witness ==
    /\ ret = "ok"
    /\ Len(stores["Safeway"]) = 3
    /\ stores["Safeway"][3].name = "MILK"
    /\ stores["Safeway"][3].price = 250
    /\ _save_pending
    /\ timers = <<NewTimer>>

\* C24: the id add_catalog_item gives is prefix-(m+1), with prefix the first
\* two letters of the store in lower case and m the largest number that an
\* id of the store with that prefix ends in (0 without one); and in every
\* state no two items of one store have the same id.
C24_NewIdIsNextSuffix ==
    /\ [](\A s \in DOMAIN stores : \A i, j \in DOMAIN stores[s] :
            i # j => stores[s][i].id # stores[s][j].id)
    /\ [][\A s \in StoreNames, name \in ItemNameArgs, category \in ItemCategoryArgs,
             price \in ItemPriceArgs :
            (Len(stores'[s]) > Len(stores[s])
                /\ add_catalog_item(s, name, category, price, "gal")) =>
               LET prefix == IF s = "Safeway" THEN "sa" ELSE "in"
                   used == {n \in IdNums :
                               \E i \in DOMAIN stores[s] : stores[s][i].id = MakeId(prefix, n)}
                   m == IF used = {} THEN 0
                        ELSE CHOOSE n \in used : \A k \in used : k <= n
               IN  stores'[s][Len(stores'[s])].id = MakeId(prefix, m + 1)]_vars

\* Safeway holds sa-2 and sa-3 after sa-1 was deleted: the third add took the
\* number after the largest, not the free one.
C24_Witness ==
    LET ids == {stores["Safeway"][i].id : i \in DOMAIN stores["Safeway"]}
    IN  "sa-2" \in ids /\ "sa-3" \in ids /\ "sa-1" \notin ids

(***************************************************************************)
(* Properties of the analytics.                                            *)
(***************************************************************************)
\* The sum of the values of a mapping.
RECURSIVE ValueSum(_)
ValueSum(f) ==
    IF DOMAIN f = {} THEN 0
    ELSE LET s == CHOOSE t \in DOMAIN f : TRUE
         IN  f[s] + ValueSum([t \in DOMAIN f \ {s} |-> f[t]])

\* C25: on a ring with archives get_archive_summary maps every store that
\* has an archive to the sum of the total_cost of its archives, and the
\* values of the mapping add up to total_spent; on an empty ring it returns
\* None.
C25_SummaryStoreTotals ==
    LET summary == get_archive_summary(archived_lists)
    IN  IF archived_lists = <<>> THEN summary = NoSummary
        ELSE /\ \A i \in DOMAIN archived_lists :
                  LET s == archived_lists[i].store
                  IN  /\ s \in DOMAIN summary.store_totals
                      /\ summary.store_totals[s] =
                            SumField(SelectSeq(archived_lists, LAMBDA a : a.store = s),
                                     "total_cost")
             /\ ValueSum(summary.store_totals) = summary.total_spent

\* Every item of the ring, scanning the ring from index 0 and each archive's
\* items in order.
RECURSIVE RingItems(_)
RingItems(ring) == IF ring = <<>> THEN <<>> ELSE Head(ring).items \o RingItems(Tail(ring))

\* The quantity of the items named n, summed over a set of positions.
RECURSIVE NamedQuantity(_, _, _)
NamedQuantity(items, n, S) ==
    IF S = {} THEN 0
    ELSE LET i == CHOOSE k \in S : TRUE
         IN  (IF items[i].name = n THEN items[i].quantity ELSE 0)
                + NamedQuantity(items, n, S \ {i})

\* C26: get_archive_summary lists at most 10 item names, each once and with
\* its quantity summed over all archives, in the order of non-increasing
\* quantity; a name that is not listed has no more than any listed one, and
\* is left out only when 10 are listed; names of equal quantity come in the
\* order in which the scan of the ring from index 0, each archive's items in
\* order, meets them first, in the list and across its end.
C26_TopItems ==
    (ret.called /\ archived_lists # <<>>) =>
        LET top == ret.summary.top_items
            items == RingItems(archived_lists)
            names == {items[i].name : i \in DOMAIN items}
            listed == {top[i].name : i \in DOMAIN top}
            Cum(n) == NamedQuantity(items, n, DOMAIN items)
            First(n) == CHOOSE i \in DOMAIN items :
                            items[i].name = n /\ \A k \in 1..(i - 1) : items[k].name # n
        IN  /\ Len(top) <= 10
            /\ Len(top) = IF Cardinality(names) < 10 THEN Cardinality(names) ELSE 10
            /\ listed \subseteq names
            /\ \A i, j \in DOMAIN top : i # j => top[i].name # top[j].name
            /\ \A i \in DOMAIN top : top[i].quantity = Cum(top[i].name)
            /\ \A i, j \in DOMAIN top : i < j =>
                  \/ top[i].quantity > top[j].quantity
                  \/ /\ top[i].quantity = top[j].quantity
                     /\ First(top[i].name) < First(top[j].name)
            /\ \A n \in names \ listed : \A i \in DOMAIN top :
                  \/ Cum(n) < top[i].quantity
                  \/ Cum(n) = top[i].quantity /\ First(top[i].name) < First(n)

\* A summary of a ring with 11 names, the last of them archived twice: the
\* list has 10 names and starts with the one that was met last.
C26_Witness ==
    /\ ret.called
    /\ Len(archived_lists) = 2
    /\ Len(archived_lists[1].items) = 11
    /\ Len(ret.summary.top_items) = 10
    /\ ret.summary.top_items[1].name = "Honey 3 lbs"
    /\ ret.summary.top_items[1].quantity = 3
    /\ ret.summary.top_items[2].quantity = 2
    /\ ret.summary.top_items[10].quantity = 1

(***************************************************************************)
(* Properties of the flushes among the threads, checked under SpecThreads. *)
(***************************************************************************)
\* C27: no flush, of a timer thread or of force_save, writes a document of
\* the middle of an operation: a step that changes the local file or the Hub
\* file writes the in-memory state of that moment, and it is not taken while
\* the calling thread is inside archive_and_restart between the insert of the
\* archive entry and the removal of the archived entries from the cart.
C27_NoTornDocument ==
    [][(catalog_file' # catalog_file \/ hub_file' # hub_file) =>
          /\ mainpc # "cart"
          /\ catalog_file' = Data
          /\ hub_file' = Data]_vars

\* The flushes in progress: the threads between _do_save's test of
\* self._save_pending and the end of _save_to_hub.
FlushesInProgress ==
    Cardinality({i \in 1..Len(timers) : timers[i].pc = "save"})
        + (IF mainpc = "save" THEN 1 ELSE 0)

\* In SpecThreads the calling thread is idle with an empty cart and a ring
\* that is not empty exactly when its last operation was an
\* archive_and_restart, whose force_save has returned.
ForceSaveReturned == mainpc = "idle" /\ shopping_list = <<>> /\ archived_lists # <<>>

\* C28: at most one flush is in progress at any time; once force_save has
\* returned and no flush is in progress, with no mutation since, the local
\* file holds the in-memory state; and no timer thread that was started
\* before the force_save call writes the document after force_save returned.
C28_ForceSaveIsTheLastFlush ==
    /\ [](FlushesInProgress <= 1)
    /\ []((ForceSaveReturned /\ FlushesInProgress = 0) => catalog_file = Data)
    /\ [][ForceSaveReturned =>
            ~\E i \in 1..Len(timers) : \E upload \in BOOLEAN, local \in LocalOutcomes :
                TimerSave(i, upload, local)]_vars

(***************************************************************************)
(* Properties of the ids, checked under SpecReuse, where no item is        *)
(* updated: a cart entry has the fields of the item it was copied from.    *)
(***************************************************************************)
\* The ids of the cart entries and of the archived items.
IdsHeld ==
    {shopping_list[i].id : i \in DOMAIN shopping_list}
        \cup UNION {{archived_lists[a].items[k].id : k \in DOMAIN archived_lists[a].items} :
                       a \in DOMAIN archived_lists}

\* C29: every cart entry whose id is the id of a catalog item is a copy of
\* that item, and a successful add_catalog_item gives the new item an id that
\* no cart entry and no archived item holds.
C29_NoIdReuse ==
    /\ [](\A i \in DOMAIN shopping_list :
             InCatalog(shopping_list[i].id) =>
                 shopping_list[i] =
                     CartEntry(CatalogItem(shopping_list[i].id), shopping_list[i].quantity))
    /\ [][Len(stores'["Safeway"]) > Len(stores["Safeway"]) =>
             stores'["Safeway"][Len(stores'["Safeway"])].id \notin IdsHeld]_vars

(***************************************************************************)
(* Properties of the archives, checked under SpecSnapshot.                 *)
(***************************************************************************)
\* C30: a step that changes the ring (its length, its order, or an entry's
\* items, item_count or total_cost) is no restore_from_archive, no add to
\* the cart, no update of a quantity, no removal from the cart, no clearing
\* of the cart, no update and no deletion of a catalog item; and every
\* restore of an archive of a named store leaves the cart with exactly the
\* archive's items as the entries of that store, so that two restores of one
\* index yield the same entries.
C30_ArchivesAreSnapshots ==
    [][/\ (archived_lists' # archived_lists) =>
            /\ \A i \in (0 - 1)..MaxRing : ~restore_from_archive(i)
            /\ \A id \in IdArgs :
                  /\ \A q \in IntArgs :
                        /\ ~add_to_shopping_list(id, q)
                        /\ ~add_to_cart(id, q)
                        /\ ~update_quantity(id, q)
                        /\ ~update_item_quantity(id, q)
                  /\ ~remove_from_shopping_list(id)
                  /\ ~remove_from_cart(id)
                  /\ \A s \in StoreNames : ~delete_catalog_item(s, id)
                  /\ \A name \in NameArgs, category \in CategoryArgs,
                        price \in PriceArgs, unit \in UnitArgs :
                        ~update_catalog_item(id, name, category, price, unit)
            /\ ~clear_shopping_list
            /\ ~app_clear_shopping_list
       /\ \A i \in 0..(Len(archived_lists) - 1) :
            (restore_from_archive(i) /\ archived_lists[i + 1].store \in StoreNames) =>
                /\ archived_lists'[i + 1] = archived_lists[i + 1]
                /\ OfStore(shopping_list', archived_lists[i + 1].store)
                       = archived_lists[i + 1].items]_vars

\* Safeway's archive keeps sw-1 as it was archived, after the item was
\* renamed in the catalog, the archive restored (the cart's entry has the
\* archived name) and the entry's quantity changed.
C30_Witness ==
    /\ archived_lists # <<>>
    /\ archived_lists[1].store = "Safeway"
    /\ archived_lists[1].items # <<>>
    /\ archived_lists[1].items[1].id = "sw-1"
    /\ archived_lists[1].items[1].name = "Chicken Breast"
    /\ archived_lists[1].items[1].quantity = 1
    /\ archived_lists[1].item_count = 1
    /\ archived_lists[1].total_cost = 499
    /\ InCatalog("sw-1")
    /\ CatalogItem("sw-1").name = "Chicken Thighs"
    /\ InCart("sw-1")
    /\ shopping_list[FirstInCart("sw-1")].name = "Chicken Breast"
    /\ shopping_list[FirstInCart("sw-1")].quantity = 2

====
